---- MODULE Spec2Model ----
(***************************************************************************)
(* A model of the datago dataframe package: cell values, Index, Series,    *)
(* DataFrame with its constructors and operators, Merge and the parallel   *)
(* helpers.  Go slices are 0-based; the sequences here are 1-based, so a   *)
(* Go position p is element p+1 of the sequence that models the slice.     *)
(***************************************************************************)
EXTENDS Integers, Sequences, FiniteSets, Bags, TLC

VARIABLES
    input,  \* the argument of a constructor call (a map or a list of records)
    df,     \* the frame the operators are applied to
    other,  \* the second frame of a call that takes two (Merge, Concat)
    ser,    \* the vector the Series operators are applied to
    call,   \* the last call made: its name and its arguments
    ret     \* what the last call returned

vars == <<input, df, other, ser, call, ret>>

(***************************************************************************)
(* Bounds of the model.                                                    *)
(***************************************************************************)
MaxLen == 2        \* longest column handed to a constructor
MaxRows == 2       \* most rows a frame of SpecFrame may grow to
MaxCPU == 2        \* most CPUs runtime.NumCPU() reports
MaxCols == 2       \* longest column list a frame of SpecFrame may grow to

None == "none"   \* value of a variable a specification does not use

\* Go's nil pointer
Nil == [nil |-> TRUE]

(***************************************************************************)
(* Cell values: interface{} holding nil, an int or a string.  A string is  *)
(* the sequence of its characters, "NUL" standing for the character        *)
(* U+0000.                                                                 *)
(***************************************************************************)
NA == [t |-> "nil", n |-> 0, s |-> <<>>]
IntCell(n) == [t |-> "int", n |-> n, s |-> <<>>]
StrCell(str) == [t |-> "str", n |-> 0, s |-> str]

(***************************************************************************)
(* Small helpers on sequences.                                             *)
(***************************************************************************)
Range(f) == {f[i] : i \in DOMAIN f}

SeqsUpTo(S, n) == UNION {[1..k -> S] : k \in 0..n}

\* all orders in which the elements of the finite set S can be visited
Orders(S) == {o \in [1..Cardinality(S) -> S] : Range(o) = S}

(***************************************************************************)
(* Text: fmt.Sprintf("%v", v) as the sequence of the characters it writes.  *)
(***************************************************************************)
Digit(d) ==
    CASE d = 0 -> "0" [] d = 1 -> "1" [] d = 2 -> "2" [] d = 3 -> "3"
      [] d = 4 -> "4" [] d = 5 -> "5" [] d = 6 -> "6" [] d = 7 -> "7"
      [] d = 8 -> "8" [] d = 9 -> "9"

RECURSIVE NatText(_)
NatText(n) == IF n < 10 THEN <<Digit(n)>> ELSE NatText(n \div 10) \o <<Digit(n % 10)>>

\* fmt.Sprintf("%v", v); a float64 cell of the model holds a whole number
Sprintf(v) ==
    CASE v.t \in {"int", "float"} -> IF v.n < 0 THEN <<"-">> \o NatText(-v.n) ELSE NatText(v.n)
      [] v.t = "str" -> v.s
      [] v.t = "nil" -> <<"<", "n", "i", "l", ">">>

(***************************************************************************)
(* Go slicing s[start:end] of a slice whose length is its capacity: it     *)
(* panics unless 0 <= start <= end <= len(s).                              *)
(***************************************************************************)
SlicePanics(s, start, end) == ~(0 <= start /\ start <= end /\ end <= Len(s))

GoSlice(s, start, end) == SubSeq(s, start + 1, end)

Min(a, b) == IF a < b THEN a ELSE b
Max(a, b) == IF a > b THEN a ELSE b

(***************************************************************************)
(* Index                                                                   *)
(***************************************************************************)
NewIndex(labels, name) == [labels |-> labels, name |-> name]

NewRangeIndex(size) ==
    [labels |-> [i \in 1..size |-> IntCell(i - 1)], name |-> ""]

\* Index.Get: the label at a position (nil and an error when out of range)
IndexGet(idx, pos) ==
    IF pos < 0 \/ pos >= Len(idx.labels) THEN NA ELSE idx.labels[pos + 1]

\* Index.GetLoc: the position of the first label equal to label, -1 if none
GetLoc(idx, label) ==
    IF \E i \in 1..Len(idx.labels) : idx.labels[i] = label
    THEN (CHOOSE i \in 1..Len(idx.labels) :
             /\ idx.labels[i] = label
             /\ \A j \in 1..(i - 1) : idx.labels[j] # label) - 1
    ELSE -1

\* Index.Slice: start and end are clamped, then labels[start:end] is copied
IndexSlicePanics(idx, start, end) ==
    SlicePanics(idx.labels, Max(start, 0), Min(end, Len(idx.labels)))

IndexSlice(idx, start, end) ==
    [labels |-> GoSlice(idx.labels, Max(start, 0), Min(end, Len(idx.labels))),
     name |-> idx.name]

(***************************************************************************)
(* Series                                                                  *)
(***************************************************************************)
NewSeries(data, name) ==
    [name |-> name, data |-> data, index |-> NewRangeIndex(Len(data))]

\* index is an Index or Nil
NewSeriesWithIndex(data, name, index) ==
    [name |-> name, data |-> data,
     index |-> IF index = Nil THEN NewRangeIndex(Len(data)) ELSE index]

SetName(s, name) == [s EXCEPT !.name = name]

SetIndex(s, index) == [s EXCEPT !.index = index]

\* Series.Get: the cell at a position (nil and an error when out of range)
SeriesGet(s, pos) ==
    IF pos < 0 \/ pos >= Len(s.data) THEN NA ELSE s.data[pos + 1]

SeriesSlicePanics(s, start, end) ==
    \/ SlicePanics(s.data, Max(start, 0), Min(end, Len(s.data)))
    \/ IndexSlicePanics(s.index, Max(start, 0), Min(end, Len(s.data)))

SeriesSlice(s, start, end) ==
    [name |-> s.name,
     data |-> GoSlice(s.data, Max(start, 0), Min(end, Len(s.data))),
     index |-> IndexSlice(s.index, Max(start, 0), Min(end, Len(s.data)))]

(***************************************************************************)
(* DataFrame                                                               *)
(***************************************************************************)
\* a Go map with no entries
EmptyMap == [x \in {} |-> NA]

Frame(columns, data, index, rows, cols) ==
    [columns |-> columns, data |-> data, index |-> index,
     shape |-> <<rows, cols>>]

\* a call's result: the frame (or nil) and the error (or nil)
Ok(f) == [nil |-> FALSE, err |-> FALSE, df |-> f]
Fail == [nil |-> TRUE, err |-> TRUE, df |-> Nil]

\* The loop of New over the map: order[i] is the i-th column the range
\* statement visits; it stops at the first column whose length differs
\* from rowCount.
RECURSIVE NewScan(_, _, _, _)
NewScan(data, order, i, rowCount) ==
    IF i > Len(order) THEN [err |-> FALSE, rowCount |-> rowCount]
    ELSE LET n == Len(data[order[i]]) IN
         IF rowCount = 0 THEN NewScan(data, order, i + 1, n)
         ELSE IF n # rowCount THEN [err |-> TRUE, rowCount |-> rowCount]
         ELSE NewScan(data, order, i + 1, rowCount)

\* New(data), the map being visited in the given order
New(data, order) ==
    IF DOMAIN data = {} THEN Ok(Frame(<<>>, EmptyMap, NewRangeIndex(0), 0, 0))
    ELSE LET scan == NewScan(data, order, 1, 0) IN
         IF scan.err THEN Fail
         ELSE Ok(Frame(order,
                       [c \in DOMAIN data |-> NewSeries(data[c], c)],
                       NewRangeIndex(scan.rowCount),
                       scan.rowCount, Len(order)))

\* FromRecords(records, columns): colData[col] collects cell j of every row
\* for each position j of columns that holds col, in row order.
RECURSIVE RowCells(_, _, _, _)
RowCells(row, columns, col, j) ==
    IF j > Len(columns) THEN <<>>
    ELSE (IF columns[j] = col THEN <<row[j]>> ELSE <<>>)
         \o RowCells(row, columns, col, j + 1)

RECURSIVE ColData(_, _, _, _)
ColData(records, columns, col, i) ==
    IF i > Len(records) THEN <<>>
    ELSE RowCells(records[i], columns, col, 1) \o ColData(records, columns, col, i + 1)

\* order: the order New visits the map colData in
FromRecords(records, columns, order) ==
    IF Len(records) = 0
    THEN Ok(Frame(columns, EmptyMap, NewRangeIndex(0), 0, Len(columns)))
    ELSE IF Len(columns) = 0 THEN Fail
    ELSE IF \E i \in 1..Len(records) : Len(records[i]) # Len(columns) THEN Fail
    ELSE New([c \in Range(columns) |-> ColData(records, columns, c, 1)], order)

\* every name of the column list has a vector: the receiver's methods
\* dereference df.data[col] for the names of df.columns
HasAll(f) == \A i \in 1..Len(f.columns) : f.columns[i] \in DOMAIN f.data

\* DataFrame.Copy (panics on a column name without a vector)
Copy(f) ==
    Frame(f.columns, [c \in Range(f.columns) |-> f.data[c]], f.index,
          f.shape[1], f.shape[2])

\* DataFrame.SetColumn(name, series): changes the receiver in place
SetColumn(f, name, series) ==
    IF Len(series.data) # f.shape[1] THEN [err |-> TRUE, df |-> f]
    ELSE LET columns == IF name \in DOMAIN f.data THEN f.columns
                        ELSE Append(f.columns, name)
         IN [err |-> FALSE,
             df |-> Frame(columns,
                          [c \in DOMAIN f.data \cup {name} |->
                              IF c = name THEN SetName(series, name) ELSE f.data[c]],
                          f.index, f.shape[1],
                          IF name \in DOMAIN f.data THEN f.shape[2] ELSE Len(columns))]

\* the names of columns that have a vector in data, in order
RECURSIVE Present(_, _)
Present(columns, data) ==
    IF columns = <<>> THEN <<>>
    ELSE (IF Head(columns) \in DOMAIN data THEN <<Head(columns)>> ELSE <<>>)
         \o Present(Tail(columns), data)

\* DataFrame.Select(columns...)
Select(f, columns) ==
    LET cols == Present(columns, f.data) IN
    Frame(cols, [c \in Range(cols) |-> f.data[c]], f.index, f.shape[1], Len(cols))

\* the names of columns that are not in the set toDrop, in order
RECURSIVE Without(_, _)
Without(columns, toDrop) ==
    IF columns = <<>> THEN <<>>
    ELSE (IF Head(columns) \in toDrop THEN <<>> ELSE <<Head(columns)>>)
         \o Without(Tail(columns), toDrop)

\* DataFrame.Drop(columns...) (panics on a kept name without a vector)
Drop(f, columns) ==
    LET newCols == Without(f.columns, Range(columns)) IN
    Frame(newCols, [c \in Range(newCols) |-> f.data[c]], f.index,
          f.shape[1], Len(newCols))

\* DataFrame.AddColumn(name, series)
AddColumn(f, name, series) ==
    IF Len(series.data) # f.shape[1] THEN f
    ELSE LET newDF == Copy(f)
             columns == Append(newDF.columns, name)
         IN Frame(columns,
                  [c \in DOMAIN newDF.data \cup {name} |->
                      IF c = name THEN series ELSE newDF.data[c]],
                  newDF.index, newDF.shape[1], Len(columns))

\* DataFrame.Rename(mapping): mapping is a function from old to new names;
\* a later column written under the same new name replaces the earlier one
Renamed(mapping, col) == IF col \in DOMAIN mapping THEN mapping[col] ELSE col

Rename(f, mapping) ==
    LET newCols == [i \in 1..Len(f.columns) |-> Renamed(mapping, f.columns[i])]
        last(n) == CHOOSE i \in 1..Len(f.columns) :
                      /\ newCols[i] = n
                      /\ \A j \in (i + 1)..Len(f.columns) : newCols[j] # n
    IN Frame(newCols,
             [n \in Range(newCols) |-> SetName(f.data[f.columns[last(n)]], n)],
             f.index, f.shape[1], Len(newCols))

\* DataFrame.ILoc(rowStart, rowEnd, colStart, colEnd)
ILocPanics(f, rowStart, rowEnd, colStart, colEnd) ==
    LET rs == Max(rowStart, 0)
        re == Min(rowEnd, f.shape[1])
        cs == Max(colStart, 0)
        ce == Min(colEnd, f.shape[2])
    IN \/ SlicePanics(f.columns, cs, ce)
       \/ \E c \in Range(GoSlice(f.columns, cs, ce)) :
             \/ c \notin DOMAIN f.data
             \/ SeriesSlicePanics(f.data[c], rs, re)
       \/ IndexSlicePanics(f.index, rs, re)

ILoc(f, rowStart, rowEnd, colStart, colEnd) ==
    LET rs == Max(rowStart, 0)
        re == Min(rowEnd, f.shape[1])
        cs == Max(colStart, 0)
        ce == Min(colEnd, f.shape[2])
        cols == GoSlice(f.columns, cs, ce)
    IN Frame(cols, [c \in Range(cols) |-> SeriesSlice(f.data[c], rs, re)],
             IndexSlice(f.index, rs, re), re - rs, ce - cs)

\* the positions GetLoc finds for the labels of a list, unknown labels skipped
RECURSIVE LocPositions(_, _)
LocPositions(idx, labels) ==
    IF labels = <<>> THEN <<>>
    ELSE (IF GetLoc(idx, Head(labels)) >= 0
          THEN <<GetLoc(idx, Head(labels))>> ELSE <<>>)
         \o LocPositions(idx, Tail(labels))

extractLabels(idx, positions) ==
    [i \in 1..Len(positions) |-> IndexGet(idx, positions[i])]

\* DataFrame.Loc(rowLabels, colLabels).  rowLabels is [kind |-> "nil"],
\* [kind |-> "list", v |-> labels] or [kind |-> "scalar", label |-> label];
\* colLabels is [kind |-> "nil"], [kind |-> "list", v |-> names] or
\* [kind |-> "string", name |-> name].
LocRows(f, rowLabels) ==
    CASE rowLabels.kind = "nil" -> [i \in 1..f.shape[1] |-> i - 1]
      [] rowLabels.kind = "list" -> LocPositions(f.index, rowLabels.v)
      [] rowLabels.kind = "scalar" -> LocPositions(f.index, <<rowLabels.label>>)

LocCols(f, colLabels) ==
    CASE colLabels.kind = "nil" -> f.columns
      [] colLabels.kind = "list" -> colLabels.v
      [] colLabels.kind = "string" -> <<colLabels.name>>

\* s.data[pos] is read for every selected position of every column found
LocPanics(f, rowLabels, colLabels) ==
    \E c \in Range(LocCols(f, colLabels)) \cap DOMAIN f.data :
       \E p \in Range(LocRows(f, rowLabels)) : p >= Len(f.data[c].data)

Loc(f, rowLabels, colLabels) ==
    LET rowPositions == LocRows(f, rowLabels)
        cols == LocCols(f, colLabels)
        newLabels == extractLabels(f.index, rowPositions)
    IN Frame(cols,
             [c \in Range(cols) \cap DOMAIN f.data |->
                 NewSeriesWithIndex(
                     [i \in 1..Len(rowPositions) |-> f.data[c].data[rowPositions[i] + 1]],
                     c, NewIndex(newLabels, f.index.name))],
             NewIndex(newLabels, f.index.name),
             Len(rowPositions), Len(cols))

\* DataFrame.Row(pos): the cells of a row by column name
Row(f, pos) == [c \in Range(f.columns) |-> SeriesGet(f.data[c], pos)]

\* Row.Get(column): nil for a name the row does not hold
RowGet(row, column) == IF column \in DOMAIN row THEN row[column] ELSE NA

\* the row predicates handed to Filter: the cell of column col equals v
Pred(col, v) == [col |-> col, v |-> v]

Holds(fn, row) == RowGet(row, fn.col) = fn.v

\* the positions 0..n-1, in order, of the rows from position i on that pass fn
RECURSIVE Passing(_, _, _, _)
Passing(f, fn, i, n) ==
    IF i >= n THEN <<>>
    ELSE (IF Holds(fn, Row(f, i)) THEN <<i>> ELSE <<>>) \o Passing(f, fn, i + 1, n)

\* DataFrame.Filter(fn)
Filter(f, fn) ==
    Loc(f, [kind |-> "list",
            v |-> extractLabels(f.index, Passing(f, fn, 0, f.shape[1]))],
        [kind |-> "nil"])

FilterPanics(f, fn) ==
    \/ f.shape[1] > 0 /\ ~HasAll(f)
    \/ LocPanics(f, [kind |-> "list",
                     v |-> extractLabels(f.index, Passing(f, fn, 0, f.shape[1]))],
                 [kind |-> "nil"])

(***************************************************************************)
(* Parallel helpers                                                        *)
(***************************************************************************)
\* ParallelOptions is [NumWorkers |-> n, ChunkSize |-> c]; numCPU is what
\* runtime.NumCPU() returns
getNumWorkers(opts, dataSize, numCPU) ==
    IF opts.NumWorkers > 0 THEN opts.NumWorkers
    ELSE LET minChunk == IF opts.ChunkSize <= 0 THEN 1000 ELSE opts.ChunkSize
             maxWorkers == Max((dataSize + minChunk - 1) \div minChunk, 1)
         IN IF numCPU < maxWorkers THEN numCPU ELSE maxWorkers

\* results[w].indices of ParallelFilter: what worker w collects from its range
WorkerIndices(f, fn, w, chunkSize, n) ==
    IF w * chunkSize >= n THEN <<>>
    ELSE Passing(f, fn, w * chunkSize, Min(w * chunkSize + chunkSize, n))

\* allIndices: the workers' lists appended in worker order, from worker w on
RECURSIVE AllIndices(_, _, _, _, _, _)
AllIndices(f, fn, w, numWorkers, chunkSize, n) ==
    IF w >= numWorkers THEN <<>>
    ELSE WorkerIndices(f, fn, w, chunkSize, n)
         \o AllIndices(f, fn, w + 1, numWorkers, chunkSize, n)

\* the frame built from the rows at the given positions under a range index
TakeRows(f, positions) ==
    Frame(f.columns,
          [c \in Range(f.columns) |->
              NewSeries([i \in 1..Len(positions) |-> SeriesGet(f.data[c], positions[i])], c)],
          NewRangeIndex(Len(positions)), Len(positions), Len(f.columns))

\* the frame returned when no row is kept
NoRows(f) == Frame(f.columns, EmptyMap, NewRangeIndex(0), 0, Len(f.columns))

\* DataFrame.ParallelFilter(fn, opt)
ParallelFilter(f, fn, opt, numCPU) ==
    LET n == f.shape[1]
        numWorkers == getNumWorkers(opt, n, numCPU)
        chunkSize == (n + numWorkers - 1) \div numWorkers
        allIndices == AllIndices(f, fn, 0, numWorkers, chunkSize, n)
    IN IF n = 0 THEN Copy(f)
       ELSE IF numWorkers <= 1 THEN Filter(f, fn)
       ELSE IF Len(allIndices) = 0 THEN NoRows(f)
       ELSE TakeRows(f, allIndices)

ParallelFilterPanics(f, fn, opt, numCPU) ==
    IF f.shape[1] > 0 /\ getNumWorkers(opt, f.shape[1], numCPU) <= 1
    THEN FilterPanics(f, fn)
    ELSE ~HasAll(f)

(***************************************************************************)
(* GroupBy                                                                 *)
(***************************************************************************)
\* the texts joined by the character U+0000
RECURSIVE JoinNul(_)
JoinNul(texts) ==
    IF texts = <<>> THEN <<>>
    ELSE IF Len(texts) = 1 THEN texts[1]
    ELSE texts[1] \o <<"NUL">> \o JoinNul(Tail(texts))

\* GroupBy.buildGroupKey(rowIdx) on frame f with keys byKeys
buildGroupKey(f, byKeys, rowIdx) ==
    JoinNul([i \in 1..Len(byKeys) |-> Sprintf(SeriesGet(f.data[byKeys[i]], rowIdx))])

\* rowKeys[i + 1] is the key of row i.  The positions 0..n-1 of the rows
\* whose key is key, ascending from i on
RECURSIVE RowsWithKey(_, _, _, _)
RowsWithKey(rowKeys, key, i, n) ==
    IF i >= n THEN <<>>
    ELSE (IF rowKeys[i + 1] = key THEN <<i>> ELSE <<>>)
         \o RowsWithKey(rowKeys, key, i + 1, n)

\* the keys of rows i..n-1 that no earlier row has, in order
RECURSIVE KeyOrder(_, _, _)
KeyOrder(rowKeys, i, n) ==
    IF i >= n THEN <<>>
    ELSE (IF \E j \in 1..i : rowKeys[j] = rowKeys[i + 1] THEN <<>>
          ELSE <<rowKeys[i + 1]>>)
         \o KeyOrder(rowKeys, i + 1, n)

\* DataFrame.GroupBy(columns...): Nil and an error on an unknown column
GroupBy(f, columns) ==
    IF \E i \in 1..Len(columns) : columns[i] \notin DOMAIN f.data THEN Nil
    ELSE LET n == f.shape[1]
             rowKeys == [i \in 1..n |-> buildGroupKey(f, columns, i - 1)]
         IN [df |-> f, byKeys |-> columns,
             groups |-> [k \in Range(rowKeys) |-> RowsWithKey(rowKeys, k, 0, n)],
             keyOrder |-> KeyOrder(rowKeys, 0, n)]

\* GroupBy.getGroupDataFrame(indices)
getGroupDataFrame(gb, indices) == TakeRows(gb.df, indices)

\* the group predicates handed to GroupBy.Filter: the group has at least
\* minRows rows
GroupHolds(predicate, groupDF) == groupDF.shape[1] >= predicate.minRows

\* the rows of the groups that pass, appended in keyOrder
RECURSIVE KeptIndices(_, _, _)
KeptIndices(gb, predicate, k) ==
    IF k > Len(gb.keyOrder) THEN <<>>
    ELSE LET indices == gb.groups[gb.keyOrder[k]] IN
         (IF Len(indices) > 0 /\ GroupHolds(predicate, getGroupDataFrame(gb, indices))
          THEN indices ELSE <<>>)
         \o KeptIndices(gb, predicate, k + 1)

\* sort.Ints: the elements of an integer slice in ascending order
RECURSIVE SortInts(_)
SortInts(xs) ==
    IF xs = <<>> THEN <<>>
    ELSE LET m == CHOOSE i \in 1..Len(xs) : \A j \in 1..Len(xs) : xs[i] <= xs[j]
         IN <<xs[m]>> \o SortInts(SubSeq(xs, 1, m - 1) \o SubSeq(xs, m + 1, Len(xs)))

\* GroupBy.Filter(predicate)
GroupByFilter(gb, predicate) ==
    LET allIndices == KeptIndices(gb, predicate, 1) IN
    IF Len(allIndices) = 0 THEN NoRows(gb.df)
    ELSE TakeRows(gb.df, SortInts(allIndices))

\* GroupBy.getGroupKeyValues(rowIdx)
getGroupKeyValues(gb, rowIdx) ==
    [i \in 1..Len(gb.byKeys) |-> SeriesGet(gb.df.data[gb.byKeys[i]], rowIdx)]

\* the loop over keyOrder of Size and Agg from group k on: what it appends
\* to keyData[col], once for every position of byKeys that holds col
RECURSIVE KeyData(_, _, _)
KeyData(gb, col, k) ==
    IF k > Len(gb.keyOrder) THEN <<>>
    ELSE LET indices == gb.groups[gb.keyOrder[k]]
             keyVals == getGroupKeyValues(gb, indices[1])
         IN (IF Len(indices) > 0
             THEN LET at == {i \in 1..Len(gb.byKeys) : gb.byKeys[i] = col}
                  IN [n \in 1..Cardinality(at) |-> keyVals[CHOOSE i \in at : TRUE]]
             ELSE <<>>)
            \o KeyData(gb, col, k + 1)

\* the sizes Size appends, from group k on
RECURSIVE GroupSizes(_, _)
GroupSizes(gb, k) ==
    IF k > Len(gb.keyOrder) THEN <<>>
    ELSE LET indices == gb.groups[gb.keyOrder[k]] IN
         (IF Len(indices) > 0 THEN <<IntCell(Len(indices))>> ELSE <<>>)
         \o GroupSizes(gb, k + 1)

\* GroupBy.Size(), New visiting the map in the given order: the frame, or
\* Nil when New fails
Size(gb, order) ==
    LET data == [c \in Range(gb.byKeys) \cup {"size"} |->
                    IF c = "size" THEN GroupSizes(gb, 1) ELSE KeyData(gb, c, 1)]
    IN New(data, order).df

\* the predefined aggregation functions AggFirst and AggLast
AggFirst(s) == IF Len(s.data) > 0 THEN SeriesGet(s, 0) ELSE NA

AggLast(s) == IF Len(s.data) > 0 THEN SeriesGet(s, Len(s.data) - 1) ELSE NA

ApplyAggFunc(fn, s) ==
    CASE fn = "AggFirst" -> AggFirst(s)
      [] fn = "AggLast" -> AggLast(s)

\* GroupBy.getGroupSeries(col, indices)
getGroupSeries(gb, col, indices) ==
    NewSeries([i \in 1..Len(indices) |-> SeriesGet(gb.df.data[col], indices[i])], col)

\* fmt.Sprintf("%s_%d", col, i)
RECURSIVE NatString(_)
NatString(n) == IF n < 10 THEN Digit(n) ELSE NatString(n \div 10) \o Digit(n % 10)

AggCol(col, i) == col \o "_" \o NatString(i)

\* the loop over keyOrder of Agg from group k on: what it appends to the
\* aggregate column of function i of column col
RECURSIVE AggData(_, _, _, _, _)
AggData(gb, aggFuncs, col, i, k) ==
    IF k > Len(gb.keyOrder) THEN <<>>
    ELSE LET indices == gb.groups[gb.keyOrder[k]] IN
         (IF Len(indices) = 0 THEN <<>>
          ELSE <<ApplyAggFunc(aggFuncs[col][i + 1], getGroupSeries(gb, col, indices))>>)
         \o AggData(gb, aggFuncs, col, i, k + 1)

\* GroupBy.Agg(aggFuncs), New visiting the map in the given order
Agg(gb, aggFuncs, order) ==
    IF \E col \in DOMAIN aggFuncs : col \notin DOMAIN gb.df.data THEN Fail
    ELSE LET pairs == UNION {{<<col, i>> : i \in 0..(Len(aggFuncs[col]) - 1)} :
                                col \in DOMAIN aggFuncs}
             aggCols == {AggCol(q[1], q[2]) : q \in pairs}
             pairOf(c) == CHOOSE q \in pairs : AggCol(q[1], q[2]) = c
             data == [c \in Range(gb.byKeys) \cup aggCols |->
                         IF c \in aggCols
                         THEN AggData(gb, aggFuncs, pairOf(c)[1], pairOf(c)[2], 1)
                         ELSE KeyData(gb, c, 1)]
         IN New(data, order)

\* string(rune('0'+i)): the character i places after '0'
RuneFromZero(i) ==
    <<"0", "1", "2", "3", "4", "5", "6", "7", "8", "9",
      ":", ";", "<", "=", ">", "?", "@">>[i + 1]

\* col + "_" + string(rune('0'+i)), the aggregate column name of ParallelAgg
ParallelAggCol(col, i) == col \o "_" \o RuneFromZero(i)

\* group i of keyOrder lies in the range of one of the workers of ParallelAgg
InWorkerRange(i, numWorkers, chunkSize, numGroups) ==
    \E w \in 0..(numWorkers - 1) :
        /\ w * chunkSize < numGroups
        /\ w * chunkSize <= i
        /\ i < Min(w * chunkSize + chunkSize, numGroups)

\* results[i].keyVals is set: a worker had group i and the group has rows
HasResult(gb, i, numWorkers, chunkSize) ==
    /\ InWorkerRange(i, numWorkers, chunkSize, Len(gb.keyOrder))
    /\ Len(gb.groups[gb.keyOrder[i + 1]]) > 0

\* the collecting loop of ParallelAgg over results from slot i on: what it
\* appends to keyData[col], once for every position of byKeys that holds col
RECURSIVE ParallelKeyData(_, _, _, _, _)
ParallelKeyData(gb, col, i, numWorkers, chunkSize) ==
    IF i >= Len(gb.keyOrder) THEN <<>>
    ELSE (IF HasResult(gb, i, numWorkers, chunkSize)
          THEN LET at == {p \in 1..Len(gb.byKeys) : gb.byKeys[p] = col}
                   keyVals == getGroupKeyValues(gb, gb.groups[gb.keyOrder[i + 1]][1])
               IN [n \in 1..Cardinality(at) |-> keyVals[CHOOSE p \in at : TRUE]]
          ELSE <<>>)
         \o ParallelKeyData(gb, col, i + 1, numWorkers, chunkSize)

\* the same loop: what it appends to the aggregate column of function j of
\* column col
RECURSIVE ParallelAggData(_, _, _, _, _, _, _)
ParallelAggData(gb, aggFuncs, col, j, i, numWorkers, chunkSize) ==
    IF i >= Len(gb.keyOrder) THEN <<>>
    ELSE (IF HasResult(gb, i, numWorkers, chunkSize)
          THEN <<ApplyAggFunc(aggFuncs[col][j + 1],
                              getGroupSeries(gb, col, gb.groups[gb.keyOrder[i + 1]]))>>
          ELSE <<>>)
         \o ParallelAggData(gb, aggFuncs, col, j, i + 1, numWorkers, chunkSize)

\* the map ParallelAgg hands to New (every slot of results is written by
\* the one worker whose range holds it, so the map does not depend on the
\* order in which the workers run)
ParallelAggMap(gb, aggFuncs, opt, numCPU) ==
    LET numGroups == Len(gb.keyOrder)
        numWorkers == Min(getNumWorkers(opt, numGroups, numCPU), numGroups)
        chunkSize == (numGroups + numWorkers - 1) \div numWorkers
        pairs == UNION {{<<col, j>> : j \in 0..(Len(aggFuncs[col]) - 1)} :
                           col \in DOMAIN aggFuncs}
        aggCols == {ParallelAggCol(q[1], q[2]) : q \in pairs}
        pairOf(c) == CHOOSE q \in pairs : ParallelAggCol(q[1], q[2]) = c
    IN IF numGroups = 0 THEN EmptyMap
       ELSE [c \in Range(gb.byKeys) \cup aggCols |->
                IF c \in aggCols
                THEN ParallelAggData(gb, aggFuncs, pairOf(c)[1], pairOf(c)[2], 0,
                                     numWorkers, chunkSize)
                ELSE ParallelKeyData(gb, c, 0, numWorkers, chunkSize)]

\* GroupBy.ParallelAgg(aggFuncs, opt), New visiting the map in the given
\* order; an unknown column gives nil and no error
ParallelAgg(gb, aggFuncs, opt, numCPU, order) ==
    IF \E col \in DOMAIN aggFuncs : col \notin DOMAIN gb.df.data
    THEN [nil |-> TRUE, err |-> FALSE, df |-> Nil]
    ELSE New(ParallelAggMap(gb, aggFuncs, opt, numCPU), order)

(***************************************************************************)
(* Concat                                                                  *)
(***************************************************************************)
\* what one frame appends to colData[col] in one pass of the loop over cols
ConcatPiece(f, col) ==
    IF col \in DOMAIN f.data THEN f.data[col].data
    ELSE [i \in 1..f.shape[1] |-> NA]

\* the loop over cols for one frame appends the piece once for every
\* position of cols that holds col
RECURSIVE Times(_, _)
Times(piece, m) == IF m = 0 THEN <<>> ELSE piece \o Times(piece, m - 1)

Count(seq, x) == Cardinality({i \in 1..Len(seq) : seq[i] = x})

RECURSIVE ConcatData(_, _, _, _)
ConcatData(dfs, cols, col, k) ==
    IF k > Len(dfs) THEN <<>>
    ELSE Times(ConcatPiece(dfs[k], col), Count(cols, col))
         \o ConcatData(dfs, cols, col, k + 1)

RECURSIVE TotalRows(_)
TotalRows(dfs) == IF dfs = <<>> THEN 0 ELSE Head(dfs).shape[1] + TotalRows(Tail(dfs))

\* Concat(dfs...)
Concat(dfs) ==
    IF Len(dfs) = 0 THEN Frame(<<>>, EmptyMap, NewRangeIndex(0), 0, 0)
    ELSE LET cols == dfs[1].columns IN
         Frame(cols,
               [c \in Range(cols) |-> NewSeries(ConcatData(dfs, cols, c, 1), c)],
               NewRangeIndex(TotalRows(dfs)), TotalRows(dfs), Len(cols))

(***************************************************************************)
(* Merge                                                                   *)
(***************************************************************************)
InnerJoin == 0
LeftJoin == 1
RightJoin == 2
OuterJoin == 3

\* MergeOptions is [How, On, LeftOn, RightOn, Suffixes, Indicator]
DefaultMergeOptions ==
    [How |-> InnerJoin, On |-> <<>>, LeftOn |-> <<>>, RightOn |-> <<>>,
     Suffixes |-> <<"_x", "_y">>, Indicator |-> FALSE]

findCommonColumns(left, right) == Present(left.columns, right.data)

NoKeys == [err |-> TRUE, leftKeys |-> <<>>, rightKeys |-> <<>>]

resolveJoinKeys(left, right, opts) ==
    IF Len(opts.On) > 0
    THEN IF \E i \in 1..Len(opts.On) :
               opts.On[i] \notin DOMAIN left.data \/ opts.On[i] \notin DOMAIN right.data
         THEN NoKeys
         ELSE [err |-> FALSE, leftKeys |-> opts.On, rightKeys |-> opts.On]
    ELSE IF Len(opts.LeftOn) > 0 /\ Len(opts.RightOn) > 0
    THEN IF Len(opts.LeftOn) # Len(opts.RightOn) THEN NoKeys
         ELSE IF \E i \in 1..Len(opts.LeftOn) : opts.LeftOn[i] \notin DOMAIN left.data
         THEN NoKeys
         ELSE IF \E i \in 1..Len(opts.RightOn) : opts.RightOn[i] \notin DOMAIN right.data
         THEN NoKeys
         ELSE [err |-> FALSE, leftKeys |-> opts.LeftOn, rightKeys |-> opts.RightOn]
    ELSE LET commonCols == findCommonColumns(left, right) IN
         IF Len(commonCols) = 0 THEN NoKeys
         ELSE [err |-> FALSE, leftKeys |-> commonCols, rightKeys |-> commonCols]

buildRowKey(f, keys, rowIdx) ==
    JoinNul([i \in 1..Len(keys) |-> Sprintf(SeriesGet(f.data[keys[i]], rowIdx))])

\* buildJoinIndex: key text -> the positions of the rows with it, ascending
buildJoinIndex(f, keys) ==
    LET n == f.shape[1]
        rowKeys == [i \in 1..n |-> buildRowKey(f, keys, i - 1)]
    IN [k \in Range(rowKeys) |-> RowsWithKey(rowKeys, k, 0, n)]

\* A result row is built from left row l and right row r; -1 stands for the
\* side a row has no part from.
BothRows(l, rs) == [j \in 1..Len(rs) |-> [l |-> l, r |-> rs[j]]]

\* the rows the loop of innerJoin appends for the left rows i..n-1
RECURSIVE innerJoinRows(_, _, _, _)
innerJoinRows(left, leftKeys, rightIndex, i) ==
    IF i >= left.shape[1] THEN <<>>
    ELSE LET leftKey == buildRowKey(left, leftKeys, i) IN
         (IF leftKey \in DOMAIN rightIndex THEN BothRows(i, rightIndex[leftKey])
          ELSE <<>>)
         \o innerJoinRows(left, leftKeys, rightIndex, i + 1)

\* leftJoin without its else branch: a left row without a match is dropped
leftJoinRowsNoElse(left, leftKeys, rightIndex, i) ==
    innerJoinRows(left, leftKeys, rightIndex, i)

\* the rows the loop of leftJoin (and the first loop of outerJoin) appends
RECURSIVE leftJoinRows(_, _, _, _)
leftJoinRows(left, leftKeys, rightIndex, i) ==
    IF i >= left.shape[1] THEN <<>>
    ELSE LET leftKey == buildRowKey(left, leftKeys, i) IN
         (IF leftKey \in DOMAIN rightIndex THEN BothRows(i, rightIndex[leftKey])
          ELSE <<[l |-> i, r |-> -1]>>)
         \o leftJoinRows(left, leftKeys, rightIndex, i + 1)

\* the rows the loop of rightJoin appends for the right rows i..n-1
RECURSIVE rightJoinRows(_, _, _, _)
rightJoinRows(right, rightKeys, leftIndex, i) ==
    IF i >= right.shape[1] THEN <<>>
    ELSE LET rightKey == buildRowKey(right, rightKeys, i) IN
         (IF rightKey \in DOMAIN leftIndex
          THEN [j \in 1..Len(leftIndex[rightKey]) |->
                   [l |-> leftIndex[rightKey][j], r |-> i]]
          ELSE <<[l |-> -1, r |-> i]>>)
         \o rightJoinRows(right, rightKeys, leftIndex, i + 1)

\* the second loop of outerJoin: the right rows i..n-1 not in matchedRight
RECURSIVE unmatchedRightRows(_, _, _)
unmatchedRightRows(right, matchedRight, i) ==
    IF i >= right.shape[1] THEN <<>>
    ELSE (IF i \in matchedRight THEN <<>> ELSE <<[l |-> -1, r |-> i]>>)
         \o unmatchedRightRows(right, matchedRight, i + 1)

\* outerJoin with its two loops in the other order
outerJoinRowsRightFirst(left, right, leftKeys, rightIndex) ==
    LET first == leftJoinRows(left, leftKeys, rightIndex, 0)
        matchedRight == {first[k].r : k \in {k \in 1..Len(first) : first[k].r >= 0}}
    IN unmatchedRightRows(right, matchedRight, 0) \o first

outerJoinRows(left, right, leftKeys, rightIndex) ==
    LET first == leftJoinRows(left, leftKeys, rightIndex, 0)
        matchedRight == {first[k].r : k \in {k \in 1..Len(first) : first[k].r >= 0}}
    IN first \o unmatchedRightRows(right, matchedRight, 0)

\* the rows Merge appends under the join type opts.How
joinRows(left, right, leftKeys, rightKeys, opts) ==
    LET rightIndex == buildJoinIndex(right, rightKeys) IN
    CASE opts.How = InnerJoin -> innerJoinRows(left, leftKeys, rightIndex, 0)
      [] opts.How = LeftJoin -> leftJoinRows(left, leftKeys, rightIndex, 0)
      [] opts.How = RightJoin ->
            rightJoinRows(right, rightKeys, buildJoinIndex(left, leftKeys), 0)
      [] opts.How = OuterJoin -> outerJoinRows(left, right, leftKeys, rightIndex)

\* the tags of the unmatched rows taken for each other
IndicatorSwapped(row) ==
    IF row.l >= 0 /\ row.r >= 0 THEN StrCell(<<"b", "o", "t", "h">>)
    ELSE IF row.r < 0 THEN StrCell(<<"r", "i", "g", "h", "t", "_", "o", "n", "l", "y">>)
    ELSE StrCell(<<"l", "e", "f", "t", "_", "o", "n", "l", "y">>)

\* the tag appended to indicators with a row
Indicator(row) ==
    IF row.l >= 0 /\ row.r >= 0 THEN StrCell(<<"b", "o", "t", "h">>)
    ELSE IF row.r < 0 THEN StrCell(<<"l", "e", "f", "t", "_", "o", "n", "l", "y">>)
    ELSE StrCell(<<"r", "i", "g", "h", "t", "_", "o", "n", "l", "y">>)

\* prepareResultColumns, the loop over left.columns: the result name of a
\* left column and its columnMapping
LeftResultCol(right, leftKeys, opts, col) ==
    IF col \in DOMAIN right.data /\ col \notin Range(leftKeys)
    THEN col \o opts.Suffixes[1] ELSE col

LeftMapping(leftKeys, col) ==
    IF col \in Range(leftKeys)
    THEN [source |-> "key", srcCol |-> col, isKey |-> TRUE,
          keyIndex |-> (CHOOSE i \in 1..Len(leftKeys) :
                           /\ leftKeys[i] = col
                           /\ \A j \in 1..(i - 1) : leftKeys[j] # col) - 1]
    ELSE [source |-> "left", srcCol |-> col, isKey |-> FALSE, keyIndex |-> 0]

\* prepareResultColumns, the loop over right.columns from position k on:
\* acc is [resultCols, colMapping] so far
RECURSIVE RightColumns(_, _, _, _, _, _)
RightColumns(left, right, rightKeys, opts, acc, k) ==
    IF k > Len(right.columns) THEN acc
    ELSE LET col == right.columns[k]
             isRightKey == col \in Range(rightKeys)
             inLeft == col \in DOMAIN left.data
             resultCol == IF inLeft THEN col \o opts.Suffixes[2] ELSE col
         IN IF inLeft /\ isRightKey
            THEN RightColumns(left, right, rightKeys, opts, acc, k + 1)
            ELSE IF resultCol \in Range(acc.resultCols)
            THEN RightColumns(left, right, rightKeys, opts, acc, k + 1)
            ELSE RightColumns(left, right, rightKeys, opts,
                    [resultCols |-> Append(acc.resultCols, resultCol),
                     colMapping |->
                        [c \in DOMAIN acc.colMapping \cup {resultCol} |->
                            IF c = resultCol
                            THEN [source |-> "right", srcCol |-> col,
                                  isKey |-> FALSE, keyIndex |-> 0]
                            ELSE acc.colMapping[c]]],
                    k + 1)

prepareResultColumns(left, right, leftKeys, rightKeys, opts) ==
    LET leftCols == [i \in 1..Len(left.columns) |->
                        LeftResultCol(right, leftKeys, opts, left.columns[i])]
        last(c) == CHOOSE i \in 1..Len(leftCols) :
                      /\ leftCols[i] = c
                      /\ \A j \in (i + 1)..Len(leftCols) : leftCols[j] # c
    IN RightColumns(left, right, rightKeys, opts,
          [resultCols |-> leftCols,
           colMapping |-> [c \in Range(leftCols) |->
                              LeftMapping(leftKeys, left.columns[last(c)])]],
          1)

\* the cell appendJoinedRow, appendLeftOnlyRow or appendRightOnlyRow appends
\* to a result column with mapping m for the row built from (row.l, row.r)
RowCell(left, right, leftKeys, rightKeys, m, row) ==
    IF row.l >= 0
    THEN IF m.isKey THEN SeriesGet(left.data[leftKeys[m.keyIndex + 1]], row.l)
         ELSE IF m.source = "left" THEN SeriesGet(left.data[m.srcCol], row.l)
         ELSE IF row.r >= 0 THEN SeriesGet(right.data[m.srcCol], row.r)
         ELSE NA
    ELSE IF m.isKey THEN SeriesGet(right.data[rightKeys[m.keyIndex + 1]], row.r)
         ELSE IF m.source = "left" THEN NA
         ELSE SeriesGet(right.data[m.srcCol], row.r)

\* a row reads a column that has no vector
RowPanics(left, right, m, row) ==
    IF m.isKey THEN FALSE
    ELSE IF m.source = "left" THEN row.l >= 0 /\ m.srcCol \notin DOMAIN left.data
    ELSE row.r >= 0 /\ m.srcCol \notin DOMAIN right.data

\* the first length other than 0 among data[col] for col in cols, else 0
RECURSIVE RowCount(_, _)
RowCount(cols, data) ==
    IF cols = <<>> THEN 0
    ELSE IF Len(data[Head(cols)]) # 0 THEN Len(data[Head(cols)])
    ELSE RowCount(Tail(cols), data)

buildJoinResult(cols, data, indicators, opts) ==
    LET cols2 == IF opts.Indicator THEN Append(cols, "_merge") ELSE cols
        data2 == IF opts.Indicator
                 THEN [c \in DOMAIN data \cup {"_merge"} |->
                          IF c = "_merge" THEN indicators ELSE data[c]]
                 ELSE data
        rowCount == RowCount(cols2, data2)
    IN Ok(Frame(cols2, [c \in Range(cols2) |-> NewSeries(data2[c], c)],
                NewRangeIndex(rowCount), rowCount, Len(cols2)))

\* Merge(left, right, opts); rows are the (left row, right row) pairs the
\* result rows were built from, in the order they were appended
Merge(left, right, opts) ==
    LET keys == resolveJoinKeys(left, right, opts) IN
    IF keys.err THEN [nil |-> TRUE, err |-> TRUE, df |-> Nil, rows |-> <<>>]
    ELSE IF opts.How \notin {InnerJoin, LeftJoin, RightJoin, OuterJoin}
    THEN [nil |-> TRUE, err |-> TRUE, df |-> Nil, rows |-> <<>>]
    ELSE LET rows == joinRows(left, right, keys.leftKeys, keys.rightKeys, opts)
             prep == prepareResultColumns(left, right, keys.leftKeys, keys.rightKeys, opts)
             resultData ==
                 [c \in Range(prep.resultCols) |->
                     [i \in 1..Len(rows) |->
                         RowCell(left, right, keys.leftKeys, keys.rightKeys,
                                 prep.colMapping[c], rows[i])]]
             indicators == IF opts.Indicator
                           THEN [i \in 1..Len(rows) |-> Indicator(rows[i])]
                           ELSE <<>>
             built == buildJoinResult(prep.resultCols, resultData, indicators, opts)
         IN [nil |-> FALSE, err |-> FALSE, df |-> built.df, rows |-> rows]

\* buildRowKey reads df.data[col] for every key and every row of both frames
KeyPanics(f, keys) ==
    f.shape[1] > 0 /\ \E i \in 1..Len(keys) : keys[i] \notin DOMAIN f.data

MergePanics(left, right, opts) ==
    LET keys == resolveJoinKeys(left, right, opts) IN
    /\ ~keys.err
    /\ opts.How \in {InnerJoin, LeftJoin, RightJoin, OuterJoin}
    /\ \/ KeyPanics(left, keys.leftKeys)
       \/ KeyPanics(right, keys.rightKeys)
       \/ LET rows == joinRows(left, right, keys.leftKeys, keys.rightKeys, opts)
              prep == prepareResultColumns(left, right, keys.leftKeys, keys.rightKeys, opts)
          IN \E c \in Range(prep.resultCols) : \E i \in 1..Len(rows) :
                RowPanics(left, right, prep.colMapping[c], rows[i])

(***************************************************************************)
(* Specification SpecFrame: a frame under any sequence of constructors and *)
(* operators.  df is the frame the last call left; call names the call,    *)
(* and for Filter the receiver and the predicate.                          *)
(***************************************************************************)
FNames == {"a", "b"}
FCells == {IntCell(1), IntCell(2)}
FColumns == SeqsUpTo(FCells, MaxLen)

\* the maps handed to New
FInputs == UNION {[D -> FColumns] : D \in SUBSET FNames}

\* the frames New returns for the maps it accepts
FFrames ==
    {New(d, o).df : <<d, o>> \in
        {x \in UNION {{<<d, o>> : o \in Orders(DOMAIN d)} : d \in FInputs} :
            ~New(x[1], x[2]).err}}

\* the vectors handed to SetColumn and AddColumn
FSeries == {NewSeries(c, "a") : c \in FColumns}

\* the second frames handed to Merge and Concat
FOthers == {f \in FFrames : f.shape[1] = 1 /\ "a" \in DOMAIN f.data}

Bounded(f) == Len(f.columns) <= MaxCols /\ f.shape[1] <= MaxRows

\* every listed name has a vector, every vector and the index have one
\* cell or label per row
WellFormed(f) ==
    /\ \A i \in 1..Len(f.columns) :
          /\ f.columns[i] \in DOMAIN f.data
          /\ Len(f.data[f.columns[i]].data) = f.shape[1]
    /\ Len(f.index.labels) = f.shape[1]

InitFrame ==
    /\ df = New(EmptyMap, <<>>).df
    /\ input = None /\ other = None /\ ser = None
    /\ call = [op |-> "none"]
    /\ ret = None

\* the frame an operation returns replaces df
Does(f) ==
    /\ WellFormed(df)
    /\ Bounded(f)
    /\ df' = f
    /\ call' = [op |-> "frame"]
    /\ UNCHANGED <<input, other, ser, ret>>

DoNew ==
    \E d \in FInputs : \E o \in Orders(DOMAIN d) :
        /\ call.op = "none"
        /\ ~New(d, o).err
        /\ Does(New(d, o).df)

DoFromRecords ==
    \E columns \in SeqsUpTo(FNames, 2) :
      \E records \in SeqsUpTo(SeqsUpTo({IntCell(1)}, 2), MaxLen) :
        \E o \in Orders(Range(columns)) :
          /\ call.op = "none"
          /\ ~FromRecords(records, columns, o).err
          /\ Does(FromRecords(records, columns, o).df)

DoILoc ==
    \E rs \in 0..1 : \E re \in 1..MaxLen : \E cs \in 0..1 : \E ce \in 1..MaxCols :
        /\ ~ILocPanics(df, rs, re, cs, ce)
        /\ Does(ILoc(df, rs, re, cs, ce))

\* the row and column selections handed to Loc
LocRowLabels ==
    {[kind |-> "nil"], [kind |-> "scalar", label |-> IntCell(1)]}
    \cup {[kind |-> "list", v |-> v] : v \in SeqsUpTo({IntCell(0), IntCell(1)}, MaxLen)}

LocColLabels ==
    {[kind |-> "nil"], [kind |-> "string", name |-> "b"]}
    \cup {[kind |-> "list", v |-> v] : v \in {<<"a">>, <<"b", "a">>}}

DoLoc ==
    \E rl \in LocRowLabels : \E cl \in LocColLabels :
        /\ ~LocPanics(df, rl, cl)
        /\ Does(Loc(df, rl, cl))

DoFilter ==
    \E col \in FNames : \E v \in FCells :
        /\ ~FilterPanics(df, Pred(col, v))
        /\ Does(Filter(df, Pred(col, v)))

\* Filter, the receiver and the predicate being kept in call
DoFilterOf ==
    \E col \in FNames : \E v \in FCells :
        /\ ~FilterPanics(df, Pred(col, v))
        /\ WellFormed(df)
        /\ Bounded(Filter(df, Pred(col, v)))
        /\ df' = Filter(df, Pred(col, v))
        /\ call' = [op |-> "Filter", recv |-> df, fn |-> Pred(col, v)]
        /\ UNCHANGED <<input, other, ser, ret>>

DoSelect ==
    \E columns \in SeqsUpTo(FNames, MaxCols) :
        /\ Len(columns) <= MaxCols
        /\ Does(Select(df, columns))

DoDrop ==
    \E columns \in SeqsUpTo(FNames, 2) :
        /\ HasAll(df)
        /\ Does(Drop(df, columns))

DoSetColumn ==
    \E name \in FNames : \E s \in FSeries :
        /\ ~SetColumn(df, name, s).err
        /\ Does(SetColumn(df, name, s).df)

DoAddColumn ==
    \E name \in FNames : \E s \in FSeries :
        /\ Len(s.data) # df.shape[1] \/ HasAll(df)
        /\ Does(AddColumn(df, name, s))

DoRename ==
    \E mapping \in UNION {[D -> FNames] : D \in SUBSET FNames} :
        /\ HasAll(df)
        /\ Does(Rename(df, mapping))

DoParallelFilter ==
    \E col \in FNames : \E v \in FCells :
      \E opt \in {[NumWorkers |-> 2, ChunkSize |-> 1000],
                  [NumWorkers |-> 0, ChunkSize |-> 1]} :
        \E numCPU \in 1..MaxCPU :
          /\ ~ParallelFilterPanics(df, Pred(col, v), opt, numCPU)
          /\ Does(ParallelFilter(df, Pred(col, v), opt, numCPU))

DoGroupByFilter ==
    \E columns \in SeqsUpTo(FNames, 2) : \E minRows \in 0..(MaxLen + 1) :
        /\ GroupBy(df, columns) # Nil
        /\ df.shape[1] = 0 \/ HasAll(df)
        /\ Does(GroupByFilter(GroupBy(df, columns), [minRows |-> minRows]))

DoMerge ==
    \E right \in FOthers : \E how \in {InnerJoin, LeftJoin, RightJoin, OuterJoin} :
      \E on \in {<<>>, <<"a">>} :
        LET opts == [DefaultMergeOptions EXCEPT !.How = how, !.On = on]
        IN /\ ~MergePanics(df, right, opts)
           /\ ~Merge(df, right, opts).err
           /\ Does(Merge(df, right, opts).df)

DoConcat ==
    \E dfs \in {<<df>>} \cup {<<df, f>> : f \in FOthers} :
        /\ Len(dfs) # 0
        /\ Does(Concat(dfs))

NextFrame ==
    \/ DoNew
    \/ DoFromRecords
    \/ DoILoc
    \/ DoLoc
    \/ DoFilter
    \/ DoParallelFilter
    \/ DoGroupByFilter
    \/ DoSelect
    \/ DoDrop
    \/ DoSetColumn
    \/ DoMerge
    \/ DoConcat

SpecFrame == InitFrame /\ [][NextFrame]_vars

\* C1: after any sequence of New, FromRecords, ILoc, Loc, Filter,
\* ParallelFilter, GroupBy.Filter, Select, Drop, SetColumn, Merge and Concat
\* every name in the column list has a column vector, every such vector has
\* one cell per row and the row index has one label per row.
C1_FrameWellFormed == WellFormed(df)

(***************************************************************************)
(* Specification SpecCols: a frame built by New under AddColumn,           *)
(* SetColumn, Rename, Select and Drop.                                     *)
(***************************************************************************)
NextCols ==
    \/ DoNew
    \/ DoAddColumn
    \/ DoSetColumn
    \/ DoRename
    \/ DoSelect
    \/ DoDrop

SpecCols == InitFrame /\ [][NextCols]_vars

NoDuplicateNames(f) ==
    \A i, j \in 1..Len(f.columns) : i # j => f.columns[i] # f.columns[j]

\* C2: after any sequence of AddColumn, SetColumn, Rename, Select and Drop on
\* a frame built by New, no column name is listed twice and shape cols equals
\* the length of the column list and the number of stored vectors.
C2_ColumnNamesUnique ==
    /\ NoDuplicateNames(df)
    /\ df.shape[2] = Len(df.columns)
    /\ df.shape[2] = Cardinality(DOMAIN df.data)

(***************************************************************************)
(* Specification SpecFilter: Filter on the frames New, Loc and SetColumn   *)
(* build.                                                                  *)
(***************************************************************************)
NextFilter ==
    \/ DoNew
    \/ DoLoc
    \/ DoSetColumn
    \/ DoFilterOf

SpecFilter == InitFrame /\ [][NextFilter]_vars

\* the positions of the receiver's rows the predicate holds for, ascending
PassingOf(c) == Passing(c.recv, c.fn, 0, c.recv.shape[1])

\* C5: Filter(p) returns exactly the rows at the positions where p holds, in
\* source order, each with the cells and the label it had in the receiver,
\* whether or not the receiver's labels are unique.
C5_FilterKeepsPassingRows ==
    call.op = "Filter" =>
        LET P == PassingOf(call) IN
        /\ df.shape[1] = Len(P)
        /\ Len(df.index.labels) = Len(P)
        /\ \A i \in 1..Len(P) :
              /\ df.index.labels[i] = call.recv.index.labels[P[i] + 1]
              /\ \A c \in Range(call.recv.columns) :
                    /\ c \in DOMAIN df.data
                    /\ Len(df.data[c].data) = Len(P)
                    /\ df.data[c].data[i] = call.recv.data[c].data[P[i] + 1]

(***************************************************************************)
(* Specification SpecNew: one call of New on every input map.              *)
(***************************************************************************)
NewNames == {"a", "b", "c"}
NewCells == {IntCell(1), NA}

NewInputs ==
    UNION {[D -> SeqsUpTo(NewCells, MaxLen)] : D \in SUBSET NewNames}

InitNew ==
    /\ input \in NewInputs
    /\ df = None /\ other = None /\ ser = None
    /\ call = [op |-> "none"]
    /\ ret = None

CallNew ==
    /\ call.op = "none"
    /\ \E order \in Orders(DOMAIN input) :
          /\ call' = [op |-> "New", order |-> order]
          /\ ret' = New(input, order)
    /\ UNCHANGED <<input, df, other, ser>>

NextNew == CallNew

SpecNew == InitNew /\ [][NextNew]_vars

\* the columns of a map do not all have the same length
UnequalLengths(data) ==
    \E c, d \in DOMAIN data : Len(data[c]) # Len(data[d])

\* C4: New returns an error and no frame whenever the columns of the input
\* map do not all have the same length, whatever the lengths and whatever
\* order the map is visited in.
C4_NewRejectsUnequalLengths ==
    (call.op = "New" /\ UnequalLengths(input)) => (ret.err /\ ret.nil)

(***************************************************************************)
(* Series operations                                                       *)
(***************************************************************************)
FloatCell(n) == [t |-> "float", n |-> n, s |-> <<>>]

\* toFloat64: [err, f].  A text converts by its leading decimal digits (the
\* texts of the model hold digits and letters that start no number)
RECURSIVE DigitsValue(_, _)
DigitsValue(str, acc) ==
    IF str = <<>> \/ Head(str) \notin {"0", "1", "2", "3", "4", "5", "6", "7", "8", "9"}
    THEN acc
    ELSE DigitsValue(Tail(str),
             10 * acc + (CHOOSE d \in 0..9 : Digit(d) = Head(str)))

toFloat64(v) ==
    CASE v.t \in {"int", "float"} -> [err |-> FALSE, f |-> v.n]
      [] v.t = "str" ->
            IF v.s # <<>> /\ Head(v.s) \in {"0", "1", "2", "3", "4", "5", "6", "7", "8", "9"}
            THEN [err |-> FALSE, f |-> DigitsValue(v.s, 0)]
            ELSE [err |-> TRUE, f |-> 0]
      [] OTHER -> [err |-> TRUE, f |-> 0]

\* IsNA
IsNA(v) ==
    \/ v.t = "nil"
    \/ v.t = "str" /\ v.s \in {<<>>, <<"N", "A">>, <<"N", "a", "N">>,
                               <<"n", "u", "l", "l">>}

\* Series.Head(n), Series.Tail(n) (a negative n panics)
SeriesHead(s, n) ==
    LET m == Min(n, Len(s.data)) IN
    [name |-> s.name, data |-> GoSlice(s.data, 0, m),
     index |-> IndexSlice(s.index, 0, m)]

SeriesHeadPanics(s, n) ==
    \/ SlicePanics(s.data, 0, Min(n, Len(s.data)))
    \/ IndexSlicePanics(s.index, 0, Min(n, Len(s.data)))

SeriesTail(s, n) ==
    LET start == Len(s.data) - Min(n, Len(s.data)) IN
    [name |-> s.name, data |-> GoSlice(s.data, start, Len(s.data)),
     index |-> IndexSlice(s.index, start, Len(s.data))]

SeriesTailPanics(s, n) ==
    LET start == Len(s.data) - Min(n, Len(s.data)) IN
    \/ SlicePanics(s.data, start, Len(s.data))
    \/ IndexSlicePanics(s.index, start, Len(s.data))

\* Series.Apply(fn): fn is [kind |-> "id"] or [kind |-> "na"]
CellFn(fn, v) == IF fn.kind = "id" THEN v ELSE NA

SeriesApply(s, fn) ==
    [name |-> s.name, data |-> [i \in 1..Len(s.data) |-> CellFn(fn, s.data[i])],
     index |-> s.index]

\* Series.DropNA: the cells that are not NA, each with the label at its position
RECURSIVE KeptPositions(_, _)
KeptPositions(data, i) ==
    IF i >= Len(data) THEN <<>>
    ELSE (IF ~IsNA(data[i + 1]) THEN <<i>> ELSE <<>>) \o KeptPositions(data, i + 1)

DropNA(s) ==
    LET kept == KeptPositions(s.data, 0) IN
    [name |-> s.name,
     data |-> [i \in 1..Len(kept) |-> s.data[kept[i] + 1]],
     index |-> NewIndex([i \in 1..Len(kept) |-> IndexGet(s.index, kept[i])],
                        s.index.name)]

(***************************************************************************)
(* sort.Slice as SortBy and SortValues call it                             *)
(***************************************************************************)
\* the characters of the model's texts in byte order
Alphabet ==
    <<"NUL", "0", "1", "2", "3", "4", "5", "6", "7", "8", "9", "<", ">",
      "N", "A", "_", "a", "b", "f", "g", "h", "i", "l", "n", "o", "r", "t",
      "u", "x", "y">>

Ord(c) == CHOOSE i \in 1..Len(Alphabet) : Alphabet[i] = c

\* a < b for Go strings
RECURSIVE TextLess(_, _)
TextLess(a, b) ==
    IF b = <<>> THEN FALSE
    ELSE IF a = <<>> THEN TRUE
    ELSE IF Head(a) # Head(b) THEN Ord(Head(a)) < Ord(Head(b))
    ELSE TextLess(Tail(a), Tail(b))

\* the less function handed to sort.Slice, on two cells
ValueLess(vi, vj, ascending) ==
    IF vi.t = "nil" /\ vj.t = "nil" THEN FALSE
    ELSE IF vi.t = "nil" THEN ~ascending
    ELSE IF vj.t = "nil" THEN ascending
    ELSE IF ~toFloat64(vi).err /\ ~toFloat64(vj).err
         THEN IF ascending THEN toFloat64(vi).f < toFloat64(vj).f
              ELSE toFloat64(vi).f > toFloat64(vj).f
    ELSE IF ascending THEN TextLess(Sprintf(vi), Sprintf(vj))
    ELSE TextLess(Sprintf(vj), Sprintf(vi))

\* indexed: the cells of a column, each with its position
Indexed(data) == [i \in 1..Len(data) |-> [index |-> i - 1, value |-> data[i]]]

\* insertion sort: x moves left past every element it is less than
RECURSIVE InsertLast(_, _, _)
InsertLast(sorted, x, ascending) ==
    IF sorted = <<>> \/ ~ValueLess(x.value, sorted[Len(sorted)].value, ascending)
    THEN Append(sorted, x)
    ELSE Append(InsertLast(SubSeq(sorted, 1, Len(sorted) - 1), x, ascending),
                sorted[Len(sorted)])

RECURSIVE InsertionSort(_, _, _)
InsertionSort(done, todo, ascending) ==
    IF todo = <<>> THEN done
    ELSE InsertionSort(InsertLast(done, Head(todo), ascending), Tail(todo), ascending)

\* the pass with gap 6 that the quicksort of sort.Slice makes before its
\* insertion sort on a slice of 2 to 12 elements
ShellPass(d, ascending) ==
    [i \in 1..Len(d) |->
        IF i + 6 <= Len(d) /\ ValueLess(d[i + 6].value, d[i].value, ascending)
            THEN d[i + 6]
        ELSE IF i > 6 /\ ValueLess(d[i].value, d[i - 6].value, ascending)
            THEN d[i - 6]
        ELSE d[i]]

\* what sort.Slice can leave in a slice of at most 12 elements: it is not
\* stable, and the library's two implementations differ from 7 elements on
\* (insertion sort alone, or the gap pass followed by insertion sort)
SortSlice(d, ascending) ==
    {InsertionSort(<<>>, d, ascending)}
    \cup (IF Len(d) > 6
          THEN {InsertionSort(<<>>, ShellPass(d, ascending), ascending)}
          ELSE {})

\* Series.SortValues(ascending) for the order sort.Slice left in indexed
SortValuesBy(s, indexed) ==
    [name |-> s.name,
     data |-> [i \in 1..Len(indexed) |-> indexed[i].value],
     index |-> NewIndex([i \in 1..Len(indexed) |->
                            IndexGet(s.index, indexed[i].index)],
                        s.index.name)]

SortValues(s, ascending) ==
    {SortValuesBy(s, indexed) : indexed \in SortSlice(Indexed(s.data), ascending)}

\* Series.ChunkedApply(fn, chunkSize): fn is [kind |-> "same"] (the chunk as
\* it is), [kind |-> "one"] (one cell, the chunk's length) or
\* [kind |-> "twice"] (the chunk two times)
ChunkFn(fn, chunk) ==
    CASE fn.kind = "same" -> chunk
      [] fn.kind = "one" -> <<IntCell(Len(chunk))>>
      [] fn.kind = "twice" -> chunk \o chunk

RECURSIVE ChunkLoop(_, _, _, _)
ChunkLoop(data, fn, start, chunkSize) ==
    IF start >= Len(data) THEN <<>>
    ELSE ChunkFn(fn, GoSlice(data, start, Min(start + chunkSize, Len(data))))
         \o ChunkLoop(data, fn, start + chunkSize, chunkSize)

ChunkedApply(s, fn, chunkSize) ==
    LET size == IF chunkSize <= 0 THEN 10000 ELSE chunkSize IN
    IF Len(s.data) = 0 THEN NewSeries(<<>>, s.name)
    ELSE [name |-> s.name, data |-> ChunkLoop(s.data, fn, 0, size),
          index |-> s.index]

\* Series.ParallelChunkedApply(fn, chunkSize, opts): the workers take the
\* chunk numbers from a channel, chunkResults[i] is chunk i's result whoever
\* computed it, and the results are appended in chunk order
RECURSIVE ChunkResults(_, _, _, _, _)
ChunkResults(data, fn, chunkIdx, numChunks, chunkSize) ==
    IF chunkIdx >= numChunks THEN <<>>
    ELSE ChunkFn(fn, GoSlice(data, chunkIdx * chunkSize,
                             Min(chunkIdx * chunkSize + chunkSize, Len(data))))
         \o ChunkResults(data, fn, chunkIdx + 1, numChunks, chunkSize)

ParallelChunkedApply(s, fn, chunkSize, opt, numCPU) ==
    LET size == IF chunkSize <= 0 THEN 10000 ELSE chunkSize
        n == Len(s.data)
        numChunks == (n + size - 1) \div size
        numWorkers == Min(getNumWorkers(opt, numChunks, numCPU), numChunks)
    IN IF n = 0 THEN NewSeries(<<>>, s.name)
       ELSE [name |-> s.name,
             data |-> IF numWorkers > 0
                      THEN ChunkResults(s.data, fn, 0, numChunks, size)
                      ELSE <<>>,
             index |-> s.index]

\* Series.Add(other): the operand is a Series ([kind |-> "series", s |-> s]) or a
\* value ([kind |-> "value", v |-> cell])
Add(s, operand) ==
    [name |-> s.name,
     data |->
        [i \in 1..Len(s.data) |->
            IF operand.kind = "series"
            THEN IF i > Len(operand.s.data) THEN NA
                 ELSE IF toFloat64(s.data[i]).err \/ toFloat64(operand.s.data[i]).err
                      THEN NA
                 ELSE FloatCell(toFloat64(s.data[i]).f + toFloat64(operand.s.data[i]).f)
            ELSE IF toFloat64(operand.v).err \/ toFloat64(s.data[i]).err THEN NA
                 ELSE FloatCell(toFloat64(s.data[i]).f + toFloat64(operand.v).f)],
     index |-> s.index]

(***************************************************************************)
(* Specification SpecSeries: one vector under the constructors and the     *)
(* vector operations.                                                      *)
(***************************************************************************)
MaxVal == 2

SCells == {IntCell(1), NA}
SLabels == {IntCell(0), IntCell(1)}
SDatas == SeqsUpTo(SCells, MaxLen)
SIndexes == {Nil} \cup {NewIndex(l, "") : l \in SeqsUpTo(SLabels, MaxLen)}

BoundedSeries(s) ==
    /\ Len(s.data) <= MaxLen
    /\ Len(s.index.labels) <= MaxLen
    /\ \A i \in 1..Len(s.data) : s.data[i].n <= MaxVal

InitSeries ==
    /\ ser = NewSeries(<<>>, "s")
    /\ input = None /\ other = None /\ df = None /\ ret = None
    /\ call = [op |-> "none"]

Gives(op, s) ==
    /\ BoundedSeries(s)
    /\ ser' = s
    /\ call' = [op |-> op]
    /\ UNCHANGED <<input, other, df, ret>>

DoNewSeriesWithIndex ==
    \E data \in SDatas : \E index \in SIndexes :
        /\ call.op = "none"
        /\ Gives("NewSeriesWithIndex", NewSeriesWithIndex(data, "s", index))

DoSetIndex ==
    \E index \in SIndexes \ {Nil} :
        /\ call.op # "none"
        /\ Gives("SetIndex", SetIndex(ser, index))

DoHead ==
    \E n \in 0..MaxLen :
        /\ ~SeriesHeadPanics(ser, n)
        /\ Gives("Head", SeriesHead(ser, n))

DoTail ==
    \E n \in 0..MaxLen :
        /\ ~SeriesTailPanics(ser, n)
        /\ Gives("Tail", SeriesTail(ser, n))

DoSlice ==
    \E start \in -1..MaxLen : \E end \in 0..(MaxLen + 1) :
        /\ ~SeriesSlicePanics(ser, start, end)
        /\ Gives("Slice", SeriesSlice(ser, start, end))

DoDropNA ==
    /\ call.op # "none"
    /\ Gives("DropNA", DropNA(ser))

DoSortValues ==
    \E ascending \in BOOLEAN : \E s \in SortValues(ser, ascending) :
        /\ call.op # "none"
        /\ Gives("SortValues", s)

DoApply ==
    \E fn \in {[kind |-> "id"], [kind |-> "na"]} :
        /\ call.op # "none"
        /\ Gives("Apply", SeriesApply(ser, fn))

ChunkFns == {[kind |-> "same"], [kind |-> "one"], [kind |-> "twice"]}

DoChunkedApply ==
    \E fn \in ChunkFns : \E chunkSize \in 0..MaxLen :
        /\ call.op # "none"
        /\ Gives("ChunkedApply", ChunkedApply(ser, fn, chunkSize))

DoParallelChunkedApply ==
    \E fn \in ChunkFns : \E chunkSize \in 0..MaxLen :
      \E opt \in {[NumWorkers |-> 2, ChunkSize |-> 1000],
                  [NumWorkers |-> 0, ChunkSize |-> 1]} :
        \E numCPU \in 1..MaxCPU :
          /\ call.op # "none"
          /\ Gives("ParallelChunkedApply",
                   ParallelChunkedApply(ser, fn, chunkSize, opt, numCPU))

DoAdd ==
    \E o \in {[kind |-> "value", v |-> IntCell(1)],
              [kind |-> "value", v |-> NA],
              [kind |-> "series", s |-> NewSeries(<<IntCell(1)>>, "t")]} :
        /\ call.op # "none"
        /\ Gives("Add", Add(ser, o))

NextSeries ==
    \/ DoNewSeriesWithIndex
    \/ DoSetIndex
    \/ DoHead
    \/ DoTail
    \/ DoSlice
    \/ DoDropNA
    \/ DoSortValues
    \/ DoApply
    \/ DoChunkedApply
    \/ DoParallelChunkedApply
    \/ DoAdd

SpecSeries == InitSeries /\ [][NextSeries]_vars

\* C3: every vector a constructor or a vector operation produces has as many
\* cells as its index has labels, for every chunk function.
C3_CellsMatchLabels == Len(ser.data) = Len(ser.index.labels)

(***************************************************************************)
(* DataFrame.SortBy and specification SpecSort: one SortBy call on a frame *)
(* New built.                                                              *)
(***************************************************************************)
Ascending == 0
Descending == 1

\* the frame SortBy builds for the order sort.Slice left in indexed
SortByWith(f, indexed) ==
    LET newIndex == NewIndex([i \in 1..Len(indexed) |->
                                 IndexGet(f.index, indexed[i].index)],
                             f.index.name)
    IN Frame(f.columns,
             [c \in Range(f.columns) |->
                 NewSeriesWithIndex(
                     [i \in 1..Len(indexed) |-> f.data[c].data[indexed[i].index + 1]],
                     c, newIndex)],
             newIndex, f.shape[1], f.shape[2])

\* DataFrame.SortBy(column, order): the frames it can return
SortBy(f, column, order) ==
    IF column \notin DOMAIN f.data THEN {f}
    ELSE {SortByWith(f, indexed) :
            indexed \in SortSlice(Indexed(SubSeq(f.data[column].data, 1, f.shape[1])),
                                  order = Ascending)}

SortRows == 7

SortKeys == {IntCell(1), IntCell(2)}

InitSort ==
    /\ \E keys \in SeqsUpTo(SortKeys, SortRows) :
          df = New([c \in {"k"} |-> keys], <<"k">>).df
    /\ input = None /\ other = None /\ ser = None /\ ret = None
    /\ call = [op |-> "none"]

DoSortBy ==
    \E order \in {Ascending, Descending} : \E f \in SortBy(df, "k", order) :
        /\ call.op = "none"
        /\ WellFormed(df)
        /\ df' = f
        /\ call' = [op |-> "SortBy", recv |-> df, order |-> order]
        /\ UNCHANGED <<input, other, ser, ret>>

NextSort == DoSortBy

SpecSort == InitSort /\ [][NextSort]_vars

\* C6: SortBy is stable: two rows of the result whose keys compare equal
\* stand in the order they had in the receiver (whose labels are its row
\* positions), for ascending and descending order and every size.
C6_SortByStable ==
    call.op = "SortBy" =>
        \A i, j \in 1..df.shape[1] :
            (/\ i < j
             /\ ~ValueLess(df.data["k"].data[i], df.data["k"].data[j],
                           call.order = Ascending)
             /\ ~ValueLess(df.data["k"].data[j], df.data["k"].data[i],
                           call.order = Ascending))
            => df.index.labels[i].n < df.index.labels[j].n

(***************************************************************************)
(* Specification SpecMerge: one Merge call.  df is the left frame, other   *)
(* the right frame, input the options; ret is what Merge returned, with    *)
(* the pairs of source rows its result rows were built from.               *)
(***************************************************************************)
MergeRows == 2

MKeys == {IntCell(1), IntCell(2), StrCell(<<"1">>)}

\* a frame with the key column k and, if withV, a column v holding each
\* row's position
MFrame(keys, withV) ==
    IF withV
    THEN New([c \in {"k", "v"} |->
                 IF c = "k" THEN keys ELSE [i \in 1..Len(keys) |-> IntCell(i - 1)]],
             <<"k", "v">>).df
    ELSE New([c \in {"k"} |-> keys], <<"k">>).df

MFrames == {MFrame(keys, withV) : keys \in SeqsUpTo(MKeys, MergeRows), withV \in BOOLEAN}

MOpts ==
    {[DefaultMergeOptions EXCEPT !.How = how, !.On = on, !.Indicator = indicator] :
        how \in {InnerJoin, LeftJoin, RightJoin, OuterJoin},
        on \in {<<"k">>, <<"k", "v">>},
        indicator \in BOOLEAN}

InitMerge ==
    /\ df \in MFrames
    /\ other \in MFrames
    /\ input \in MOpts
    /\ ser = None /\ ret = None
    /\ call = [op |-> "none"]

CallMerge ==
    /\ call.op = "none"
    /\ ~MergePanics(df, other, input)
    /\ ret' = Merge(df, other, input)
    /\ call' = [op |-> "Merge"]
    /\ UNCHANGED <<input, df, other, ser>>

NextMerge == CallMerge

SpecMerge == InitMerge /\ [][NextMerge]_vars

\* Merge was called with on=K and returned a frame
Merged(how) ==
    /\ call.op = "Merge"
    /\ input.How = how
    /\ Len(input.On) > 0
    /\ ~ret.err

\* the cells of row i of f and of row j of g agree in every column of K
CellsAgree(f, i, g, j, K) ==
    \A c \in Range(K) : f.data[c].data[i + 1] = g.data[c].data[j + 1]

\* C7: an inner merge on K returns the sum over the keys on both sides of
\* count_L(k) * count_R(k) rows (the number of pairs of a left and a right
\* row with the same key), two rows having the same key exactly when their
\* cells agree in every column of K.
C7_InnerJoinRowCount ==
    Merged(InnerJoin) =>
        ret.df.shape[1] =
            Cardinality({p \in (0..(df.shape[1] - 1)) \X (0..(other.shape[1] - 1)) :
                            CellsAgree(df, p[1], other, p[2], input.On)})

\* the number of rows of g whose key is the key of row i of f
CountKey(f, i, g, K) ==
    Cardinality({j \in 0..(g.shape[1] - 1) :
                    buildRowKey(g, K, j) = buildRowKey(f, K, i)})

\* the sum over the rows i..n-1 of f of max(1, count_g(key(row)))
RECURSIVE SumLeft(_, _, _, _)
SumLeft(f, g, K, i) ==
    IF i >= f.shape[1] THEN 0
    ELSE Max(1, CountKey(f, i, g, K)) + SumLeft(f, g, K, i + 1)

\* result row j holds, in the columns that come from the left frame, the
\* cells of left row i
HoldsLeftRow(j, i) ==
    \A c \in Range(df.columns) :
        LET rc == LeftResultCol(other, input.On, input, c) IN
        /\ rc \in DOMAIN ret.df.data
        /\ j <= Len(ret.df.data[rc].data)
        /\ ret.df.data[rc].data[j] = df.data[c].data[i + 1]

\* C8: a left merge on K returns the sum over the left rows r of
\* max(1, count_R(key(r))) rows, and every left row appears in the result.
C8_LeftJoinRowCount ==
    Merged(LeftJoin) =>
        /\ ret.df.shape[1] = SumLeft(df, other, input.On, 0)
        /\ \A c \in Range(ret.df.columns) :
              Len(ret.df.data[c].data) = ret.df.shape[1]
        /\ \A i \in 0..(df.shape[1] - 1) :
              \E j \in 1..ret.df.shape[1] : HoldsLeftRow(j, i)

\* a left merge in which one left row has no match and another has two
C8_Witness ==
    /\ Merged(LeftJoin)
    /\ \E i \in 0..(df.shape[1] - 1) : CountKey(df, i, other, input.On) = 0
    /\ \E i \in 0..(df.shape[1] - 1) : CountKey(df, i, other, input.On) = 2
    /\ ret.df.shape[1] = 3

\* the name a column of the right frame that is no key has in the result
RightResultCol(c) ==
    IF c \in DOMAIN df.data THEN c \o input.Suffixes[2] ELSE c

\* result row j holds, in the columns that come from the right frame alone,
\* the cells of right row i
HoldsRightRow(j, i) ==
    \A c \in Range(other.columns) \ Range(input.On) :
        LET rc == RightResultCol(c) IN
        /\ rc \in DOMAIN ret.df.data
        /\ j <= Len(ret.df.data[rc].data)
        /\ ret.df.data[rc].data[j] = other.data[c].data[i + 1]

\* result row j holds NA in the columns of the left (right) frame alone
NoLeftRow(j) ==
    \A c \in Range(df.columns) \ Range(input.On) :
        ret.df.data[LeftResultCol(other, input.On, input, c)].data[j] = NA

NoRightRow(j) ==
    \A c \in Range(other.columns) \ Range(input.On) :
        ret.df.data[RightResultCol(c)].data[j] = NA

\* ret.rows tells for every result row which rows it holds
BuiltFromRows ==
    /\ Len(ret.rows) = ret.df.shape[1]
    /\ \A j \in 1..Len(ret.rows) :
          /\ IF ret.rows[j].l >= 0 THEN HoldsLeftRow(j, ret.rows[j].l)
             ELSE NoLeftRow(j)
          /\ IF ret.rows[j].r >= 0 THEN HoldsRightRow(j, ret.rows[j].r)
             ELSE NoRightRow(j)

\* row a stands before row b by left position, then by right position
LeftOrder(a, b) == a.l < b.l \/ (a.l = b.l /\ a.r < b.r)

\* C9: inner and left joins list the result rows by ascending left row
\* position, the matches of one left row by ascending right row position;
\* a right join lists them by ascending right row position; an outer join
\* lists the rows that stem from a left row first, in left order, then the
\* right rows without a match, in right order.
C9_EmissionOrder ==
    (call.op = "Merge" /\ Len(input.On) > 0 /\ ~ret.err) =>
        /\ BuiltFromRows
        /\ \A a, b \in 1..Len(ret.rows) :
              a < b =>
                CASE input.How \in {InnerJoin, LeftJoin} ->
                        LeftOrder(ret.rows[a], ret.rows[b])
                  [] input.How = RightJoin -> ret.rows[a].r <= ret.rows[b].r
                  [] input.How = OuterJoin ->
                        /\ ret.rows[b].l >= 0 =>
                              /\ ret.rows[a].l >= 0
                              /\ LeftOrder(ret.rows[a], ret.rows[b])
                        /\ (ret.rows[a].l < 0 /\ ret.rows[b].l < 0) =>
                              ret.rows[a].r < ret.rows[b].r

\* an outer merge with a matched row, a left row without a match and,
\* after them, a right row without a match that stands in the right frame
\* before a matched right row
C9_Witness ==
    /\ Merged(OuterJoin)
    /\ \E a, b, c \in 1..Len(ret.rows) :
          /\ ret.rows[a].l >= 0 /\ ret.rows[a].r >= 0
          /\ ret.rows[b].r < 0
          /\ ret.rows[c].l < 0
          /\ a < c /\ b < c
          /\ ret.rows[c].r < ret.rows[a].r

Tags(j) == ret.df.data["_merge"].data[j]

\* C10: with the indicator option the result has _merge as its last column
\* with one tag per result row, in all four join modes and with zero rows:
\* "both" exactly for the rows built from a left and a right row with equal
\* keys, "left_only" exactly for the rows built from a left row without a
\* match, "right_only" exactly for the rows built from a right row without
\* a match.
C10_IndicatorColumn ==
    (call.op = "Merge" /\ Len(input.On) > 0 /\ ~ret.err /\ input.Indicator) =>
        /\ BuiltFromRows
        /\ ret.df.columns[Len(ret.df.columns)] = "_merge"
        /\ ret.df.shape[2] = Len(ret.df.columns)
        /\ \A c \in Range(ret.df.columns) :
              Len(ret.df.data[c].data) = ret.df.shape[1]
        /\ \A j \in 1..Len(ret.rows) :
              LET l == ret.rows[j].l
                  r == ret.rows[j].r
              IN /\ Tags(j) \in {StrCell(<<"b", "o", "t", "h">>),
                                 StrCell(<<"l", "e", "f", "t", "_", "o", "n", "l", "y">>),
                                 StrCell(<<"r", "i", "g", "h", "t", "_", "o", "n", "l", "y">>)}
                 /\ Tags(j) = StrCell(<<"b", "o", "t", "h">>) <=>
                        /\ l >= 0 /\ r >= 0
                        /\ buildRowKey(df, input.On, l) = buildRowKey(other, input.On, r)
                 /\ Tags(j) = StrCell(<<"l", "e", "f", "t", "_", "o", "n", "l", "y">>) <=>
                        /\ l >= 0 /\ r < 0
                        /\ CountKey(df, l, other, input.On) = 0
                 /\ Tags(j) = StrCell(<<"r", "i", "g", "h", "t", "_", "o", "n", "l", "y">>) <=>
                        /\ l < 0 /\ r >= 0
                        /\ CountKey(other, r, df, input.On) = 0

\* an outer merge with the indicator option whose result holds all three tags
C10_Witness ==
    /\ Merged(OuterJoin)
    /\ input.Indicator
    /\ \E a, b, c \in 1..ret.df.shape[1] :
          /\ Tags(a) = StrCell(<<"b", "o", "t", "h">>)
          /\ Tags(b) = StrCell(<<"l", "e", "f", "t", "_", "o", "n", "l", "y">>)
          /\ Tags(c) = StrCell(<<"r", "i", "g", "h", "t", "_", "o", "n", "l", "y">>)

(***************************************************************************)
(* Specification SpecJoin: one Merge call on frames whose key columns have *)
(* the same or different names.  df is the left frame, other the right     *)
(* frame, input the options; ret is what Merge returned.                   *)
(***************************************************************************)
JCols == {<<"a">>, <<"a", "c">>, <<"b">>, <<"b", "c">>}

\* a frame with the columns cols: a and b hold keys, c holds base + the
\* row's position
JFrame(cols, keys, base) ==
    New([c \in Range(cols) |->
            IF c = "c" THEN [i \in 1..Len(keys) |-> IntCell(base + i - 1)] ELSE keys],
        cols).df

JKeys == SeqsUpTo({IntCell(1), IntCell(2)}, MergeRows)

\* the key options of a call: On, or LeftOn with RightOn, or one of them
\* alone, or none
JKeySpecs ==
    {[On |-> <<"a">>, LeftOn |-> <<>>, RightOn |-> <<>>],
     [On |-> <<>>, LeftOn |-> <<"a">>, RightOn |-> <<"b">>],
     [On |-> <<>>, LeftOn |-> <<"a">>, RightOn |-> <<>>],
     [On |-> <<>>, LeftOn |-> <<>>, RightOn |-> <<"b">>],
     [On |-> <<>>, LeftOn |-> <<>>, RightOn |-> <<>>],
     [On |-> <<>>, LeftOn |-> <<"a">>, RightOn |-> <<"b", "c">>],
     [On |-> <<>>, LeftOn |-> <<"a", "c">>, RightOn |-> <<"b", "c">>]}

\* Suffixes as DefaultMergeOptions() sets them, and as a MergeOptions
\* literal that does not name the field leaves them (the zero value)
JSuffixes == {DefaultMergeOptions.Suffixes, <<"", "">>}

JOpts ==
    {[DefaultMergeOptions EXCEPT !.How = how, !.On = k.On, !.LeftOn = k.LeftOn,
                                 !.RightOn = k.RightOn, !.Suffixes = sfx] :
        how \in {InnerJoin, LeftJoin, RightJoin, OuterJoin},
        k \in JKeySpecs, sfx \in JSuffixes}

InitJoin ==
    /\ df \in {JFrame(cols, keys, 0) : cols \in JCols, keys \in JKeys}
    /\ other \in {JFrame(cols, keys, MergeRows) : cols \in JCols, keys \in JKeys}
    /\ input \in JOpts
    /\ ser = None /\ ret = None
    /\ call = [op |-> "none"]

NextJoin == CallMerge

SpecJoin == InitJoin /\ [][NextJoin]_vars

\* the key columns the options of the call name: on for both sides, else
\* left_on and right_on, else the columns the two frames share
ClaimKeys ==
    IF Len(input.On) > 0 THEN [left |-> input.On, right |-> input.On]
    ELSE IF Len(input.LeftOn) > 0 \/ Len(input.RightOn) > 0
    THEN [left |-> input.LeftOn, right |-> input.RightOn]
    ELSE [left |-> SelectSeq(df.columns, LAMBDA c : c \in Range(other.columns)),
          right |-> SelectSeq(df.columns, LAMBDA c : c \in Range(other.columns))]

\* Merge was called with as many left keys as right keys and returned a frame
Joined ==
    /\ call.op = "Merge"
    /\ ~ret.err
    /\ Len(ClaimKeys.left) = Len(ClaimKeys.right)

\* the names the columns of the left frame have in the result
LeftNames ==
    {LeftResultCol(other, ClaimKeys.left, input, c) : c \in Range(df.columns)}

\* C11: in a merge result every pair of join keys gives exactly one column,
\* under the left key's name; when left_on and right_on name different
\* columns, the right key column is no column of its own in the result.
C11_KeyColumnsOnce ==
    Joined =>
        \A i \in 1..Len(ClaimKeys.left) :
            /\ Count(ret.df.columns, ClaimKeys.left[i]) = 1
            /\ ClaimKeys.right[i] # ClaimKeys.left[i] =>
                  ClaimKeys.right[i] \notin Range(ret.df.columns) \ LeftNames

\* the suffixes a call uses by the merge guide: those of the options, "_x"
\* and "_y" when the options do not set them
ClaimSuffixes ==
    IF input.Suffixes = <<"", "">> THEN <<"_x", "_y">> ELSE input.Suffixes

\* the names of the columns of both frames that are no key on either side
SharedNonKeys ==
    (Range(df.columns) \cap Range(other.columns))
        \ (Range(ClaimKeys.left) \cup Range(ClaimKeys.right))

\* C12: when a column name c that is no key exists in both frames, the
\* result has the two columns c + left suffix, with the left values, and
\* c + right suffix, with the right values, and loses neither; options that
\* do not set the suffixes use "_x" and "_y".
C12_OverlapSuffixes ==
    Joined =>
        \A c \in SharedNonKeys :
            LET lc == c \o ClaimSuffixes[1]
                rc == c \o ClaimSuffixes[2]
            IN /\ Count(ret.df.columns, lc) = 1
               /\ Count(ret.df.columns, rc) = 1
               /\ lc \in DOMAIN ret.df.data
               /\ rc \in DOMAIN ret.df.data
               /\ \A j \in 1..Len(ret.rows) :
                     /\ ret.rows[j].l >= 0 =>
                           ret.df.data[lc].data[j] = df.data[c].data[ret.rows[j].l + 1]
                     /\ ret.rows[j].r >= 0 =>
                           ret.df.data[rc].data[j] = other.data[c].data[ret.rows[j].r + 1]

\* where prepareResultColumns takes result column rc of the call from
SourceOf(rc) ==
    prepareResultColumns(df, other, ClaimKeys.left, ClaimKeys.right, input).colMapping[rc]

\* the position of right key column c in the right keys
KeyPos(c) == CHOOSE i \in 1..Len(ClaimKeys.right) : ClaimKeys.right[i] = c

\* the cell the claim gives column rc in a row built from left row l alone
LeftOnlyCell(rc, l) ==
    LET m == SourceOf(rc) IN
    IF m.isKey THEN df.data[ClaimKeys.left[m.keyIndex + 1]].data[l + 1]
    ELSE IF m.source = "left" THEN df.data[m.srcCol].data[l + 1]
    ELSE IF m.srcCol \notin Range(ClaimKeys.right) THEN NA
    ELSE df.data[ClaimKeys.left[KeyPos(m.srcCol)]].data[l + 1]

\* the cell the claim gives column rc in a row built from right row r alone
RightOnlyCell(rc, r) ==
    LET m == SourceOf(rc) IN
    IF m.isKey THEN other.data[ClaimKeys.right[m.keyIndex + 1]].data[r + 1]
    ELSE IF m.source = "left" THEN NA
    ELSE other.data[m.srcCol].data[r + 1]

\* C13: in a left, right or outer merge result a row built from a left row
\* without a match holds NA in every column that comes from a right column
\* that is no key, and the left row's own cells in the other columns; a row
\* built from a right row without a match holds NA in every column that
\* comes from a left column that is no key, the right row's key cells in
\* the key columns and the right row's cells in the other columns.
C13_NullFilling ==
    (Joined /\ input.How \in {LeftJoin, RightJoin, OuterJoin}) =>
        \A j \in 1..Len(ret.rows) : \A rc \in Range(ret.df.columns) :
            /\ (ret.rows[j].l >= 0 /\ ret.rows[j].r < 0) =>
                  ret.df.data[rc].data[j] = LeftOnlyCell(rc, ret.rows[j].l)
            /\ (ret.rows[j].l < 0 /\ ret.rows[j].r >= 0) =>
                  ret.df.data[rc].data[j] = RightOnlyCell(rc, ret.rows[j].r)

\* the key options of the call are wrong in one of the ways listed
BadKeys ==
    \/ /\ Len(input.On) > 0
       /\ \E c \in Range(input.On) :
             c \notin Range(df.columns) \/ c \notin Range(other.columns)
    \/ /\ Len(input.On) = 0
       /\ \/ \E c \in Range(input.LeftOn) : c \notin Range(df.columns)
          \/ \E c \in Range(input.RightOn) : c \notin Range(other.columns)
          \/ Len(input.LeftOn) # Len(input.RightOn)
    \/ /\ Len(input.On) = 0 /\ Len(input.LeftOn) = 0 /\ Len(input.RightOn) = 0
       /\ Range(df.columns) \cap Range(other.columns) = {}

\* C14: in all four join modes Merge returns an error and no frame when a
\* column named in on is missing from either frame, when a column named in
\* left_on or right_on is missing from its frame, when left_on and right_on
\* differ in length (one of them may be empty), and when no keys are given
\* and the frames share no column name.
C14_BadKeysRejected ==
    (call.op = "Merge" /\ BadKeys) => (ret.err /\ ret.nil)

(***************************************************************************)
(* Specification SpecKey: one GroupBy or one Merge call on frames whose    *)
(* key columns k and j hold cells of different dynamic types.  df is the   *)
(* receiver or the left frame, other the right frame, input the key        *)
(* columns and the join mode; ret is what the call returned.               *)
(***************************************************************************)
KCells == {IntCell(1), FloatCell(1), StrCell(<<>>), StrCell(<<"NUL">>)}

KFrames(n) ==
    {New([c \in {"k", "j"} |-> IF c = "k" THEN ks ELSE js], <<"k", "j">>).df :
        ks \in [1..n -> KCells], js \in [1..n -> KCells]}

InitKey ==
    /\ df \in UNION {KFrames(n) : n \in 0..MergeRows}
    /\ other \in UNION {KFrames(n) : n \in 0..1}
    /\ input \in [by : {<<"k">>, <<"k", "j">>},
                  how : {InnerJoin, LeftJoin, RightJoin, OuterJoin}]
    /\ ser = None /\ ret = None
    /\ call = [op |-> "none"]

CallGroupBy ==
    /\ call.op = "none"
    /\ ret' = GroupBy(df, input.by)
    /\ call' = [op |-> "GroupBy"]
    /\ UNCHANGED <<input, df, other, ser>>

CallMergeOn ==
    /\ call.op = "none"
    /\ LET opts == [DefaultMergeOptions EXCEPT !.How = input.how, !.On = input.by] IN
       /\ ~MergePanics(df, other, opts)
       /\ ret' = Merge(df, other, opts)
    /\ call' = [op |-> "Merge"]
    /\ UNCHANGED <<input, df, other, ser>>

NextKey == CallGroupBy \/ CallMergeOn

SpecKey == InitKey /\ [][NextKey]_vars

\* row i of f and row j of g have cells of equal text in every column of K
SameText(f, i, g, j, K) ==
    \A c \in Range(K) : Sprintf(f.data[c].data[i + 1]) = Sprintf(g.data[c].data[j + 1])

\* in some column of K row i of f and row j of g hold the same number, one
\* as an integer and one as a float
MixedNumbers(f, i, g, j, K) ==
    \E c \in Range(K) :
        LET x == f.data[c].data[i + 1]
            y == g.data[c].data[j + 1]
        IN x.t \in {"int", "float"} /\ y.t \in {"int", "float"} /\ x.t # y.t /\ x.n = y.n

\* C15: group_by and merge compare keys by the text of the key cells: two
\* rows are in one group, or match in a join, only if their key cells have
\* equal text in every key column, and cells that are equal as numbers but
\* differ in dynamic type (integer 1 and float 1.0) make different keys.
C15_KeysByText ==
    /\ (call.op = "GroupBy" /\ ret # Nil) =>
          \A key \in DOMAIN ret.groups : \A a, b \in Range(ret.groups[key]) :
              /\ SameText(df, a, df, b, input.by)
              /\ ~MixedNumbers(df, a, df, b, input.by)
    /\ (call.op = "Merge" /\ ~ret.err) =>
          \A i \in 1..Len(ret.rows) :
              (ret.rows[i].l >= 0 /\ ret.rows[i].r >= 0) =>
                  /\ SameText(df, ret.rows[i].l, other, ret.rows[i].r, input.by)
                  /\ ~MixedNumbers(df, ret.rows[i].l, other, ret.rows[i].r, input.by)

(***************************************************************************)
(* Specification SpecGroup: one Size or one Agg call on a GroupBy.  df is  *)
(* the grouped frame, input the key columns and the aggregation map; ret   *)
(* is what the call returned.                                              *)
(***************************************************************************)
GroupRows == 3

GFramesOf(n) ==
    {New([c \in {"k", "v"} |-> IF c = "k" THEN ks ELSE vs], <<"k", "v">>).df :
        ks \in [1..n -> {IntCell(1), IntCell(2), FloatCell(1)}],
        vs \in [1..n -> {IntCell(1), IntCell(2)}]}

GFrames == UNION {GFramesOf(n) : n \in 0..GroupRows}

GAggFuncs ==
    {[c \in {"v"} |-> <<"AggFirst">>],
     [c \in {"v"} |-> <<"AggLast", "AggFirst">>],
     [c \in {"k", "v"} |-> IF c = "k" THEN <<"AggLast">> ELSE <<"AggFirst">>],
     [c \in {"z"} |-> <<"AggFirst">>]}

InitGroup ==
    /\ df \in GFrames
    /\ input \in [by : {<<"k">>, <<"k", "v">>, <<"v", "k">>}, aggFuncs : GAggFuncs]
    /\ other = None /\ ser = None /\ ret = None
    /\ call = [op |-> "none"]

\* gb, _ := df.GroupBy(by...); ret = gb.Size()
CallSize ==
    /\ call.op = "none"
    /\ LET gb == GroupBy(df, input.by) IN
       \E order \in Orders(Range(input.by) \cup {"size"}) :
          ret' = Size(gb, order)
    /\ call' = [op |-> "Size"]
    /\ UNCHANGED <<input, df, other, ser>>

\* gb, _ := df.GroupBy(by...); ret = gb.Agg(aggFuncs)
CallAgg ==
    /\ call.op = "none"
    /\ LET gb == GroupBy(df, input.by)
           names == Range(input.by) \cup
                    UNION {{AggCol(col, i - 1) : i \in 1..Len(input.aggFuncs[col])} :
                              col \in DOMAIN input.aggFuncs}
       IN \E order \in Orders(names) : ret' = Agg(gb, input.aggFuncs, order)
    /\ call' = [op |-> "Agg"]
    /\ UNCHANGED <<input, df, other, ser>>

NextGroup == CallSize \/ CallAgg

SpecGroup == InitGroup /\ [][NextGroup]_vars

\* the cells of row i of f in the columns K
Projection(f, K, i) == [p \in 1..Len(K) |-> f.data[K[p]].data[i + 1]]

\* the distinct K-projections of the rows i..n-1 of f that no earlier row
\* has, in order of first appearance
RECURSIVE FirstAppearances(_, _, _)
FirstAppearances(f, K, i) ==
    IF i >= f.shape[1] THEN <<>>
    ELSE (IF \E j \in 0..(i - 1) : Projection(f, K, j) = Projection(f, K, i)
          THEN <<>> ELSE <<Projection(f, K, i)>>)
         \o FirstAppearances(f, K, i + 1)

RECURSIVE SumCells(_)
SumCells(cells) == IF cells = <<>> THEN 0 ELSE Head(cells).n + SumCells(Tail(cells))

\* C16: GroupBy(K).Size() returns a frame with one row per distinct
\* K-projection of the rows of F, in order of first appearance in F, and
\* the values of its size column sum to the row count of F.
C16_SizePerProjection ==
    call.op = "Size" =>
        LET first == FirstAppearances(df, input.by, 0) IN
        /\ ret # Nil
        /\ ret.shape[1] = Len(first)
        /\ \A r \in 1..Len(first) : Projection(ret, input.by, r - 1) = first[r]
        /\ Len(ret.data["size"].data) = Len(first)
        /\ SumCells(ret.data["size"].data) = df.shape[1]

\* the names of the aggregate columns of the call
AggNames ==
    UNION {{AggCol(col, i - 1) : i \in 1..Len(input.aggFuncs[col])} :
              col \in DOMAIN input.aggFuncs}

\* C17: for an aggregation map over existing columns Agg returns a frame
\* whose column list starts with the key columns in the order given to
\* GroupBy, followed by the aggregate columns named "<column>_<k>", k the
\* 0-based position of the aggregator in its list; this order is the same
\* on every call, and the rows are in order of first appearance of their
\* group.
C17_AggColumnOrder ==
    (call.op = "Agg" /\ DOMAIN input.aggFuncs \subseteq Range(df.columns)) =>
        LET first == FirstAppearances(df, input.by, 0)
            n == Len(input.by)
        IN /\ ~ret.err
           /\ Len(ret.df.columns) = n + Cardinality(AggNames)
           /\ SubSeq(ret.df.columns, 1, n) = input.by
           /\ {ret.df.columns[i] : i \in (n + 1)..Len(ret.df.columns)} = AggNames
           /\ ret.df.shape[1] = Len(first)
           /\ \A r \in 1..Len(first) : Projection(ret.df, input.by, r - 1) = first[r]

(***************************************************************************)
(* Describe.  A float64 that need not be a whole number is kept exact: a   *)
(* ratio num/den, the square root of a ratio, or NaN.                      *)
(***************************************************************************)
NaN == [t |-> "NaN"]
Ratio(num, den) == [t |-> "ratio", num |-> num, den |-> den]
SqrtRatio(num, den) == [t |-> "sqrt", num |-> num, den |-> den]

\* the values the loops of Sum, Mean, Var, Min and Max take: toFloat64 of
\* the cells that are not NA and convert
Numbers(s) ==
    LET ok == SelectSeq(s.data, LAMBDA v : ~IsNA(v) /\ ~toFloat64(v).err)
    IN [i \in 1..Len(ok) |-> toFloat64(ok[i]).f]

RECURSIVE SumInts(_)
SumInts(xs) == IF xs = <<>> THEN 0 ELSE Head(xs) + SumInts(Tail(xs))

\* Series.Count
SeriesCount(s) == Len(SelectSeq(s.data, LAMBDA v : ~IsNA(v)))

\* Series.Mean
SeriesMean(s) ==
    LET xs == Numbers(s) IN
    IF Len(xs) = 0 THEN NaN ELSE Ratio(SumInts(xs), Len(xs))

\* Series.Var: the sum of (x - mean)^2 over count - 1, as
\* (count * sum(x^2) - sum(x)^2) / (count * (count - 1))
SeriesVar(s) ==
    LET xs == Numbers(s)
        n == Len(xs)
    IN IF n <= 1 THEN NaN
       ELSE Ratio(n * SumInts([i \in 1..n |-> xs[i] * xs[i]]) - SumInts(xs) * SumInts(xs),
                  n * (n - 1))

\* Series.Std
SeriesStd(s) ==
    LET v == SeriesVar(s) IN
    IF v = NaN THEN NaN ELSE SqrtRatio(v.num, v.den)

\* Series.Min, Series.Max
SeriesMin(s) ==
    LET xs == Numbers(s) IN
    IF Len(xs) = 0 THEN NA
    ELSE FloatCell(CHOOSE x \in Range(xs) : \A y \in Range(xs) : x <= y)

SeriesMax(s) ==
    LET xs == Numbers(s) IN
    IF Len(xs) = 0 THEN NA
    ELSE FloatCell(CHOOSE x \in Range(xs) : \A y \in Range(xs) : x >= y)

\* a column name as a cell (the names of the model are one character long)
NameCell(col) == StrCell(<<col>>)

\* DataFrame.Describe(), New visiting the map in the given order
Describe(f, order) ==
    LET stat(name, s) ==
            CASE name = "count" -> FloatCell(SeriesCount(s))
              [] name = "mean" -> SeriesMean(s)
              [] name = "std" -> SeriesStd(s)
              [] name = "min" -> SeriesMin(s)
              [] name = "max" -> SeriesMax(s)
        colData == [name \in {"count", "mean", "std", "min", "max"} |->
                       [i \in 1..Len(f.columns) |-> stat(name, f.data[f.columns[i]])]]
        statIndex == [i \in 1..Len(f.columns) |-> NameCell(f.columns[i])]
        dfStats == New(colData, order).df
    IN [dfStats EXCEPT !.index = NewIndex(statIndex, "column")]

(***************************************************************************)
(* Specification SpecDescribe: one Describe call.  df is the receiver,     *)
(* ret the frame Describe returned.                                        *)
(***************************************************************************)
DCells == {IntCell(1), IntCell(2), NA}

DFramesOf(cols, n) ==
    {New(data, cols).df : data \in [Range(cols) -> [1..n -> DCells]]}

InitDescribe ==
    /\ df \in UNION {DFramesOf(cols, n) :
                        cols \in {<<>>, <<"a">>, <<"a", "b">>, <<"b", "a">>},
                        n \in 0..MaxLen}
    /\ input = None /\ other = None /\ ser = None /\ ret = None
    /\ call = [op |-> "none"]

CallDescribe ==
    /\ call.op = "none"
    /\ \E order \in Orders({"count", "mean", "std", "min", "max"}) :
          ret' = Describe(df, order)
    /\ call' = [op |-> "Describe"]
    /\ UNCHANGED <<input, df, other, ser>>

NextDescribe == CallDescribe

SpecDescribe == InitDescribe /\ [][NextDescribe]_vars

\* C18: for a frame with n columns Describe returns a frame of n rows and 5
\* columns whose column list is [count, mean, std, min, max] in that order
\* on every call, and whose row labels are the source column names in
\* source column order under the index name "column".
C18_DescribeShape ==
    call.op = "Describe" =>
        /\ ret.shape = <<Len(df.columns), 5>>
        /\ ret.columns = <<"count", "mean", "std", "min", "max">>
        /\ ret.index.labels = [i \in 1..Len(df.columns) |-> NameCell(df.columns[i])]
        /\ ret.index.name = "column"

(***************************************************************************)
(* Specification SpecConcat: a frame from New, narrowed by Select, then    *)
(* handed to Concat alone or with a second frame.  call holds the frames   *)
(* handed to Concat, ret the frame it returned.                            *)
(***************************************************************************)
CallConcat ==
    /\ call.op \in {"none", "frame"}
    /\ \E dfs \in {<<df>>} \cup {<<df, f>> : f \in FOthers} \cup {<<f, df>> : f \in FOthers} :
          /\ ret' = Concat(dfs)
          /\ call' = [op |-> "Concat", dfs |-> dfs]
    /\ UNCHANGED <<input, df, other, ser>>

NextConcat == DoNew \/ DoSelect \/ CallConcat

SpecConcat == InitFrame /\ [][NextConcat]_vars

\* the cells of column col in the frames dfs, in input order, NA standing
\* for every row of a frame without the column
RECURSIVE CellsInOrder(_, _)
CellsInOrder(dfs, col) ==
    IF dfs = <<>> THEN <<>>
    ELSE (IF col \in DOMAIN Head(dfs).data THEN Head(dfs).data[col].data
          ELSE [i \in 1..Head(dfs).shape[1] |-> NA])
         \o CellsInOrder(Tail(dfs), col)

\* C19: Concat returns a frame whose column list is the first frame's
\* column list, whose row count is the sum of the inputs' row counts, whose
\* every column holds the inputs' cells of that column in input order, with
\* NA for all rows of an input without the column, and whose index is the
\* range 0..total-1.
C19_ConcatRows ==
    call.op = "Concat" =>
        /\ ret.columns = call.dfs[1].columns
        /\ ret.shape[1] = TotalRows(call.dfs)
        /\ \A c \in Range(ret.columns) :
              /\ c \in DOMAIN ret.data
              /\ ret.data[c].data = CellsInOrder(call.dfs, c)
        /\ ret.index.labels = [i \in 1..TotalRows(call.dfs) |-> IntCell(i - 1)]

(***************************************************************************)
(* Specification SpecPFilter: one ParallelFilter call and the Filter call  *)
(* with the same predicate on the same frame.  df is the receiver, input   *)
(* the predicate, the options and the number of CPUs; ret holds the two    *)
(* frames returned.                                                        *)
(***************************************************************************)
PFOpts ==
    {[NumWorkers |-> w, ChunkSize |-> 1000] : w \in 0..(MaxCPU + 1)}
        \cup {[NumWorkers |-> 0, ChunkSize |-> 1]}

InitPFilter ==
    /\ df \in {f \in FFrames : WellFormed(f)}
    /\ input \in [fn : {Pred(col, v) : col \in FNames, v \in FCells},
                  opt : PFOpts, numCPU : 1..MaxCPU]
    /\ other = None /\ ser = None /\ ret = None
    /\ call = [op |-> "none"]

CallParallelFilter ==
    /\ call.op = "none"
    /\ ~FilterPanics(df, input.fn)
    /\ ~ParallelFilterPanics(df, input.fn, input.opt, input.numCPU)
    /\ ret' = [par |-> ParallelFilter(df, input.fn, input.opt, input.numCPU),
               seq |-> Filter(df, input.fn)]
    /\ call' = [op |-> "ParallelFilter"]
    /\ UNCHANGED <<input, df, other, ser>>

NextPFilter == CallParallelFilter

SpecPFilter == InitPFilter /\ [][NextPFilter]_vars

\* C20: for every frame, row predicate and worker count ParallelFilter
\* returns the same frame as Filter: the same rows in the same order, the
\* same column list with a vector for each column, and the same row labels,
\* also when no row passes.
C20_ParallelFilterEqualsFilter ==
    call.op = "ParallelFilter" =>
        /\ ret.par.columns = ret.seq.columns
        /\ ret.par.shape = ret.seq.shape
        /\ \A c \in Range(ret.seq.columns) :
              /\ c \in DOMAIN ret.par.data
              /\ c \in DOMAIN ret.seq.data
              /\ ret.par.data[c].data = ret.seq.data[c].data
        /\ ret.par.index.labels = ret.seq.index.labels

(***************************************************************************)
(* Specification SpecPAgg: one ParallelAgg call and the Agg call with the  *)
(* same aggregation map on the same GroupBy.  df is the grouped frame,     *)
(* input the key columns, the aggregation map, the options and the number  *)
(* of CPUs; ret holds what the two calls returned.                         *)
(***************************************************************************)
MaxAggs == 11

RECURSIVE SeqOf(_)
SeqOf(S) ==
    IF S = {} THEN <<>>
    ELSE LET x == CHOOSE x \in S : TRUE IN <<x>> \o SeqOf(S \ {x})

\* the orders in which a range statement visits a map with the keys S: all
\* orders for up to three keys; for more keys the model takes the visits
\* that start at any key and go round one cycle
MapOrders(S) ==
    IF Cardinality(S) <= 3 THEN Orders(S)
    ELSE LET cycle == SeqOf(S)
             n == Len(cycle)
         IN {SubSeq(cycle, k, n) \o SubSeq(cycle, 1, k - 1) : k \in 1..n}

PAFramesOf(n) ==
    {New([c \in {"k", "v"} |-> IF c = "k" THEN ks ELSE vs], <<"k", "v">>).df :
        ks \in [1..n -> {IntCell(1), IntCell(2)}],
        vs \in [1..n -> {IntCell(1), IntCell(2)}]}

PAAggFuncs ==
    {[c \in {"v"} |-> <<"AggFirst">>],
     [c \in {"v"} |-> <<"AggLast", "AggFirst">>],
     [c \in {"v"} |-> [i \in 1..MaxAggs |-> IF i % 2 = 0 THEN "AggFirst" ELSE "AggLast"]]}

InitPAgg ==
    /\ df \in UNION {PAFramesOf(n) : n \in 0..GroupRows}
    /\ input \in [by : {<<"k">>}, aggFuncs : PAAggFuncs, opt : PFOpts, numCPU : 1..MaxCPU]
    /\ other = None /\ ser = None /\ ret = None
    /\ call = [op |-> "none"]

\* gb, _ := df.GroupBy(by...); ret.par = gb.ParallelAgg(aggFuncs, opt) and
\* ret.seq = gb.Agg(aggFuncs)
CallParallelAgg ==
    /\ call.op = "none"
    /\ LET gb == GroupBy(df, input.by)
           data == ParallelAggMap(gb, input.aggFuncs, input.opt, input.numCPU)
       IN \E o1 \in MapOrders(DOMAIN data) :
            \E o2 \in MapOrders(Range(input.by) \cup AggNames) :
               ret' = [par |-> ParallelAgg(gb, input.aggFuncs, input.opt,
                                           input.numCPU, o1),
                       seq |-> Agg(gb, input.aggFuncs, o2)]
    /\ call' = [op |-> "ParallelAgg"]
    /\ UNCHANGED <<input, df, other, ser>>

NextPAgg == CallParallelAgg

SpecPAgg == InitPAgg /\ [][NextPAgg]_vars

\* C21: for an aggregation map over existing columns (lists of 10 or more
\* aggregators included) and every worker count ParallelAgg returns the
\* same frame as Agg: the same column names, the aggregator's position
\* written in decimal, the same rows in order of first appearance of their
\* group, and the same cells.
C21_ParallelAggEqualsAgg ==
    call.op = "ParallelAgg" =>
        /\ ~ret.par.nil /\ ~ret.par.err /\ ~ret.seq.err
        /\ Range(ret.par.df.columns) = Range(input.by) \cup AggNames
        /\ Range(ret.par.df.columns) = Range(ret.seq.df.columns)
        /\ ret.par.df.shape = ret.seq.df.shape
        /\ \A c \in Range(ret.seq.df.columns) :
              /\ c \in DOMAIN ret.par.df.data
              /\ ret.par.df.data[c].data = ret.seq.df.data[c].data

(***************************************************************************)
(* Specification SpecAlias: one call of AddColumn, Drop, Rename or SortBy  *)
(* on the frame df, or of FillNA or DropNA on the vector ser, followed by  *)
(* an in-place SetColumn or Set on what the call returned.  other holds    *)
(* the receivers as they were before the call; ret.same tells that the     *)
(* call returned the receiver itself (the same pointer), ret.val is the    *)
(* value of the object returned.                                           *)
(***************************************************************************)
\* Series.FillNA(value)
FillNA(s, value) ==
    [name |-> s.name,
     data |-> [i \in 1..Len(s.data) |-> IF IsNA(s.data[i]) THEN value ELSE s.data[i]],
     index |-> s.index]

\* Series.Set(pos, value): changes the vector in place
SeriesSet(s, pos, value) ==
    IF pos < 0 \/ pos >= Len(s.data) THEN [err |-> TRUE, s |-> s]
    ELSE [err |-> FALSE, s |-> [s EXCEPT !.data[pos + 1] = value]]

\* AddColumn and SortBy return the receiver df itself on their early return
AddColumnReturnsReceiver(f, series) == Len(series.data) # f.shape[1]

SortByReturnsReceiver(f, column) == column \notin DOMAIN f.data

InitAlias ==
    /\ df \in {f \in FFrames : WellFormed(f)}
    /\ ser \in {NewSeries(d, "s") : d \in SDatas}
    /\ other = [df |-> df, ser |-> ser]
    /\ input = None /\ ret = None
    /\ call = [op |-> "none"]

\* a call on the frame returned the frame f, the receiver itself if same
ReturnsFrame(op, same, f) ==
    /\ call.op = "none"
    /\ ret' = [same |-> same, val |-> f]
    /\ call' = [op |-> op, kind |-> "frame"]
    /\ UNCHANGED <<input, df, other, ser>>

ReturnsSeries(op, s) ==
    /\ call.op = "none"
    /\ ret' = [same |-> FALSE, val |-> s]
    /\ call' = [op |-> op, kind |-> "series"]
    /\ UNCHANGED <<input, df, other, ser>>

CallAddColumn ==
    /\ call.op = "none"
    /\ \E name \in FNames : \E s \in FSeries :
           ReturnsFrame("AddColumn", AddColumnReturnsReceiver(df, s), AddColumn(df, name, s))

CallDrop ==
    /\ call.op = "none"
    /\ \E columns \in SeqsUpTo(FNames, 1) :
           ReturnsFrame("Drop", FALSE, Drop(df, columns))

CallRename ==
    /\ call.op = "none"
    /\ \E mapping \in UNION {[D -> FNames] : D \in SUBSET FNames} :
           ReturnsFrame("Rename", FALSE, Rename(df, mapping))

CallSortBy ==
    /\ call.op = "none"
    /\ \E column \in FNames : \E order \in {Ascending, Descending} :
           \E f \in SortBy(df, column, order) :
               ReturnsFrame("SortBy", SortByReturnsReceiver(df, column), f)

CallFillNA ==
    /\ call.op = "none"
    /\ \E value \in {IntCell(2), NA} : ReturnsSeries("FillNA", FillNA(ser, value))

CallDropNA ==
    /\ call.op = "none"
    /\ ReturnsSeries("DropNA", DropNA(ser))

\* ret.SetColumn(name, s) on the frame returned
SetColumnOnReturned ==
    /\ call.op \in {"AddColumn", "Drop", "Rename", "SortBy"}
    /\ \E name \in FNames : \E s \in FSeries :
          LET set == SetColumn(ret.val, name, s) IN
          /\ ~set.err
          /\ ret' = [ret EXCEPT !.val = set.df]
          /\ df' = IF ret.same THEN set.df ELSE df
    /\ call' = [op |-> "SetColumn", kind |-> "frame"]
    /\ UNCHANGED <<input, other, ser>>

\* ret.Set(pos, value) on the vector returned
SetOnReturned ==
    /\ call.op \in {"FillNA", "DropNA"}
    /\ \E pos \in 0..(MaxLen - 1) : \E value \in {IntCell(2), NA} :
          LET set == SeriesSet(ret.val, pos, value) IN
          /\ ~set.err
          /\ ret' = [ret EXCEPT !.val = set.s]
          /\ ser' = IF ret.same THEN set.s ELSE ser
    /\ call' = [op |-> "Set", kind |-> "series"]
    /\ UNCHANGED <<input, other, df>>

NextAlias ==
    \/ CallAddColumn
    \/ CallDrop
    \/ CallRename
    \/ CallSortBy
    \/ CallFillNA
    \/ CallDropNA
    \/ SetColumnOnReturned
    \/ SetOnReturned

SpecAlias == InitAlias /\ [][NextAlias]_vars

\* C22: AddColumn, Drop, Rename, SortBy, FillNA and DropNA leave the
\* receiver's column list, cells and index as they were, and a later
\* in-place SetColumn or Set on the frame or vector returned leaves them so
\* too, on every path of these operators (AddColumn with a vector of the
\* wrong length and SortBy on an unknown column included).
C22_ReceiverUnchanged ==
    /\ df.columns = other.df.columns
    /\ DOMAIN df.data = DOMAIN other.df.data
    /\ \A c \in DOMAIN df.data : df.data[c].data = other.df.data[c].data
    /\ df.index = other.df.index
    /\ ser.data = other.ser.data
    /\ ser.index = other.ser.index

(***************************************************************************)
(* Specification SpecNA: one FillNA or DropNA call on a vector that        *)
(* NewSeriesWithIndex built.  ser is the receiver, ret the vector returned.*)
(***************************************************************************)
NACells == {IntCell(1), NA, StrCell(<<"N", "A">>)}
FillValues == {IntCell(0), NA, StrCell(<<"N", "A">>)}

InitNA ==
    /\ ser \in {NewSeriesWithIndex(d, "s", ix) : d \in SeqsUpTo(NACells, MaxLen), ix \in SIndexes}
    /\ input = None /\ other = None /\ df = None /\ ret = None
    /\ call = [op |-> "none"]

FillNAOnVector ==
    /\ call.op = "none"
    /\ \E value \in FillValues :
          /\ ret' = FillNA(ser, value)
          /\ call' = [op |-> "FillNA", value |-> value]
    /\ UNCHANGED <<input, df, other, ser>>

DropNAOnVector ==
    /\ call.op = "none"
    /\ ret' = DropNA(ser)
    /\ call' = [op |-> "DropNA"]
    /\ UNCHANGED <<input, df, other, ser>>

NextNA == FillNAOnVector \/ DropNAOnVector

SpecNA == InitNA /\ [][NextNA]_vars

\* the positions (from 1) of the non-NA cells of the receiver, ascending
NonNAPositions ==
    SelectSeq([i \in 1..Len(ser.data) |-> i], LAMBDA i : ~IsNA(ser.data[i]))

\* C23: no cell of FillNA(x) is NA, for every vector and every fill value x;
\* every cell of DropNA(s).IsNA() is false, and DropNA keeps exactly the
\* non-NA cells of s in order, each with its label.
C23_FillDropNA ==
    /\ call.op = "FillNA" =>
          \A i \in 1..Len(ret.data) : ~IsNA(ret.data[i])
    /\ call.op = "DropNA" =>
          /\ \A i \in 1..Len(ret.data) : ~IsNA(ret.data[i])
          /\ Len(ret.data) = Len(NonNAPositions)
          /\ Len(ret.index.labels) = Len(NonNAPositions)
          /\ \A i \in 1..Len(NonNAPositions) :
                /\ ret.data[i] = ser.data[NonNAPositions[i]]
                /\ NonNAPositions[i] <= Len(ser.index.labels)
                /\ ret.index.labels[i] = ser.index.labels[NonNAPositions[i]]

(***************************************************************************)
(* The parallel primitives as goroutines.  call is the caller and what the *)
(* goroutines share (the wait group's count wg, result slices, channels,   *)
(* the mutex), other the worker goroutines in the order of their go        *)
(* statements, ret what the call returned once call.pc is "returned".  A   *)
(* goroutine that was started and has not run yet is a worker that has     *)
(* taken no step, so the loop of go statements is part of the start        *)
(* action.  Every worker action is one step of one goroutine.              *)
(***************************************************************************)
ParLen == 3       \* most cells, chunks, columns or paths handed to a parallel call
ParWorkers == 3   \* largest NumWorkers asked for

\* the options of a call and what runtime.NumCPU() returns during it (read
\* only when NumWorkers is 0)
ParOpts ==
    {[opt |-> [NumWorkers |-> w, ChunkSize |-> 1000], numCPU |-> 1] : w \in 1..ParWorkers}
    \cup {[opt |-> [NumWorkers |-> 0, ChunkSize |-> c], numCPU |-> p] :
             c \in {0, 1}, p \in 1..MaxCPU}

\* the cells 1, 2, .., n
Counting(n) == [i \in 1..n |-> IntCell(i)]

\* chunkSize := (n + numWorkers - 1) / numWorkers
RangeChunkSizeFloor(n, numWorkers) == n \div numWorkers

RangeChunkSize(n, numWorkers) == (n + numWorkers - 1) \div numWorkers

\* the loop over w: the ranges [start, end) of the goroutines started, a
\* worker whose start is not below n gets none (wg.Done() at once)
WorkerRanges(n, numWorkers, chunkSize) ==
    LET started == SelectSeq([k \in 1..numWorkers |-> k - 1],
                             LAMBDA w : w * chunkSize < n)
    IN [k \in 1..Len(started) |->
           [w |-> started[k], start |-> started[k] * chunkSize,
            end |-> Min(started[k] * chunkSize + chunkSize, n)]]

\* the goroutines of these ranges before their first step: i is the loop
\* variable, indices what a worker of ParallelFilter has collected
RangeWorkers(ranges) ==
    [k \in 1..Len(ranges) |->
        [pc |-> "run", w |-> ranges[k].w, start |-> ranges[k].start,
         end |-> ranges[k].end, i |-> ranges[k].start, indices |-> <<>>]]

\* wg.Wait() lets the caller go on
WaitPassesEarly(wg) == wg <= 1

WaitPasses(wg) == wg = 0

Returned(v) ==
    /\ ret' = v
    /\ call' = [call EXCEPT !.pc = "returned"]

\* The workers that take their work from a channel run the same code on
\* the same variables and differ in nothing but their place in it: other is
\* then the bag of these places.
Started(numWorkers, w) == [x \in {w} |-> numWorkers]

Moved(workers, w, v) == (workers (-) SetToBag({w})) (+) SetToBag({v})

AllDone(workers) == \A w \in BagToSet(workers) : w.pc = "done"

\* a call about to be made: the primitive, the receiver (a frame f or a
\* vector s), the arguments, and no worker yet
CallOf(prim, f, s, args, workers) ==
    [call |-> [prim |-> prim, pc |-> "call", parallel |-> FALSE],
     df |-> f, ser |-> s, input |-> args, other |-> workers]

Calling(c) ==
    /\ call = c.call /\ df = c.df /\ ser = c.ser /\ input = c.input
    /\ other = c.other /\ ret = None

(***************************************************************************)
(* Series.ParallelApply                                                    *)
(***************************************************************************)
ParallelApplyCalls ==
    {CallOf("ParallelApply", Nil, NewSeries(d, "s"),
            [fn |-> fn, opt |-> o.opt, numCPU |-> o.numCPU], <<>>) :
        d \in SeqsUpTo(SCells, ParLen), fn \in {[kind |-> "id"], [kind |-> "na"]},
        o \in ParOpts}

InitParallelApply == \E c \in ParallelApplyCalls : Calling(c)

StartParallelApply ==
    /\ call.prim = "ParallelApply" /\ call.pc = "call"
    /\ LET n == Len(ser.data)
           numWorkers == getNumWorkers(input.opt, n, input.numCPU)
           chunkSize == RangeChunkSize(n, numWorkers)
           ranges == WorkerRanges(n, numWorkers, chunkSize)
       IN IF n = 0 THEN Returned(NewSeries(<<>>, ser.name)) /\ UNCHANGED other
          ELSE IF numWorkers <= 1
          THEN Returned(SeriesApply(ser, input.fn)) /\ UNCHANGED other
          ELSE /\ call' = [prim |-> "ParallelApply", pc |-> "wait", parallel |-> TRUE,
                           numWorkers |-> numWorkers,
                           wg |-> numWorkers - (numWorkers - Len(ranges)),
                           result |-> [i \in 1..n |-> NA]]
               /\ other' = RangeWorkers(ranges)
               /\ UNCHANGED ret
    /\ UNCHANGED <<input, df, ser>>

\* one pass of the worker's loop (result[i] = fn(s.data[i])), or its
\* deferred wg.Done() after the last
ApplyWorker(k) ==
    /\ call.prim = "ParallelApply" /\ other[k].pc = "run"
    /\ IF other[k].i < other[k].end
       THEN /\ call' = [call EXCEPT !.result[other[k].i + 1] =
                                        CellFn(input.fn, ser.data[other[k].i + 1])]
            /\ other' = [other EXCEPT ![k].i = @ + 1]
       ELSE /\ call' = [call EXCEPT !.wg = @ - 1]
            /\ other' = [other EXCEPT ![k].pc = "done"]
    /\ UNCHANGED <<input, df, ser, ret>>

ReturnParallelApply ==
    /\ call.prim = "ParallelApply" /\ call.pc = "wait"
    /\ WaitPasses(call.wg)
    /\ Returned([name |-> ser.name, data |-> call.result, index |-> ser.index])
    /\ UNCHANGED <<input, df, other, ser>>

NextParallelApply ==
    \/ StartParallelApply
    \/ \E k \in DOMAIN other : ApplyWorker(k)
    \/ ReturnParallelApply

SpecParallelApply == InitParallelApply /\ [][NextParallelApply]_vars

\* C24: in ParallelApply on n >= 1 cells with w >= 2 workers (w > n
\* included) the workers' ranges are pairwise disjoint and cover exactly
\* the positions 0..n-1, the caller has its result only after every worker
\* has finished, and cell i of the result is fn of cell i of the receiver,
\* as Apply gives it, under every interleaving of the workers.
C24_ParallelApply ==
    (call.prim = "ParallelApply" /\ call.parallel) =>
        LET n == Len(ser.data) IN
        /\ \A k \in DOMAIN other :
              0 <= other[k].start /\ other[k].end <= n
        /\ \A i \in 0..(n - 1) :
              Cardinality({k \in DOMAIN other :
                              other[k].start <= i /\ i < other[k].end}) = 1
        /\ call.pc = "returned" =>
              /\ \A k \in DOMAIN other : other[k].pc = "done"
              /\ ret = SeriesApply(ser, input.fn)

C24_Witness ==
    /\ call.prim = "ParallelApply" /\ call.parallel /\ call.pc = "returned"
    /\ call.numWorkers > Len(ser.data)
    /\ Len(other) >= 2
    /\ \E i \in 1..Len(ser.data) : ret.data[i] # NA

(***************************************************************************)
(* Series.ParallelChunkedApply: chunkChan holds the chunk numbers and is   *)
(* closed, resultChan has room for numChunks results, a goroutine of its   *)
(* own closes resultChan after wg.Wait(), the caller receives from         *)
(* resultChan until it is closed and empty.  taken and processed count how *)
(* often a chunk number was received from chunkChan and how often its      *)
(* chunk was handed to fn, overtaken tells that the caller received the    *)
(* result of a chunk after that of a later chunk.                          *)
(***************************************************************************)
ParallelChunkedApplyCalls ==
    {CallOf("ParallelChunkedApply", Nil, NewSeries(Counting(n), "s"),
            [fn |-> fn, chunkSize |-> chunkSize, opt |-> o.opt, numCPU |-> o.numCPU],
            EmptyBag) :
        n \in 0..ParLen, fn \in ChunkFns, chunkSize \in 0..2, o \in ParOpts}

InitParallelChunkedApply == \E c \in ParallelChunkedApplyCalls : Calling(c)

StartParallelChunkedApply ==
    /\ call.prim = "ParallelChunkedApply" /\ call.pc = "call"
    /\ LET chunkSize == IF input.chunkSize <= 0 THEN 10000 ELSE input.chunkSize
           n == Len(ser.data)
           numChunks == (n + chunkSize - 1) \div chunkSize
           numWorkers == Min(getNumWorkers(input.opt, numChunks, input.numCPU), numChunks)
       IN IF n = 0 THEN Returned(NewSeries(<<>>, ser.name)) /\ UNCHANGED other
          ELSE /\ call' = [prim |-> "ParallelChunkedApply", pc |-> "collect",
                           parallel |-> TRUE, chunkSize |-> chunkSize,
                           numChunks |-> numChunks, wg |-> numWorkers,
                           chunkChan |-> [c \in 1..numChunks |-> c - 1],
                           resultChan |-> <<>>, closed |-> FALSE,
                           chunkResults |-> [c \in 1..numChunks |-> <<>>],
                           taken |-> [c \in 1..numChunks |-> 0],
                           processed |-> [c \in 1..numChunks |-> 0],
                           overtaken |-> FALSE]
               /\ other' = Started(numWorkers, [pc |-> "take"])
               /\ UNCHANGED ret
    /\ UNCHANGED <<input, df, ser>>

\* one step of a worker: the receive from chunkChan (which ends the loop
\* and runs wg.Done() when the channel is drained), or fn(chunk) and the
\* send of its result, which waits while resultChan is full
ChunkWorker(w) ==
    /\ call.prim = "ParallelChunkedApply"
    /\ \/ /\ w.pc = "take"
          /\ IF call.chunkChan # <<>>
             THEN /\ other' = Moved(other, w, [pc |-> "process",
                                               chunkIdx |-> Head(call.chunkChan)])
                  /\ call' = [call EXCEPT !.chunkChan = Tail(@),
                                          !.taken[Head(call.chunkChan) + 1] = @ + 1]
             ELSE /\ other' = Moved(other, w, [pc |-> "done"])
                  /\ call' = [call EXCEPT !.wg = @ - 1]
       \/ /\ w.pc = "process"
          /\ Len(call.resultChan) < call.numChunks
          /\ LET start == w.chunkIdx * call.chunkSize
                 end == Min(start + call.chunkSize, Len(ser.data))
                 processed == ChunkFn(input.fn, GoSlice(ser.data, start, end))
             IN call' = [call EXCEPT
                            !.resultChan = Append(@, [index |-> w.chunkIdx,
                                                      data |-> processed]),
                            !.processed[w.chunkIdx + 1] = @ + 1]
          /\ other' = Moved(other, w, [pc |-> "take"])
    /\ UNCHANGED <<input, df, ser, ret>>

\* go func() { wg.Wait(); close(resultChan) }()
CloseResultChan ==
    /\ call.prim = "ParallelChunkedApply" /\ call.pc = "collect"
    /\ ~call.closed
    /\ WaitPasses(call.wg)
    /\ call' = [call EXCEPT !.closed = TRUE]
    /\ UNCHANGED <<input, df, other, ser, ret>>

\* chunkResults[r.index] = r.data
PlaceChunkFromEnd(chunkResults, r) ==
    [chunkResults EXCEPT ![Len(chunkResults) - r.index] = r.data]

PlaceChunk(chunkResults, r) == [chunkResults EXCEPT ![r.index + 1] = r.data]

\* one pass of for r := range resultChan
CollectChunk ==
    /\ call.prim = "ParallelChunkedApply" /\ call.pc = "collect"
    /\ call.resultChan # <<>>
    /\ call' = [call EXCEPT
                   !.resultChan = Tail(@),
                   !.chunkResults = PlaceChunk(@, Head(call.resultChan)),
                   !.overtaken = @ \/ \E c \in 1..call.numChunks :
                                         /\ c - 1 > Head(call.resultChan).index
                                         /\ call.chunkResults[c] # <<>>]
    /\ UNCHANGED <<input, df, other, ser, ret>>

RECURSIVE Flatten(_)
Flatten(chunks) == IF chunks = <<>> THEN <<>> ELSE Head(chunks) \o Flatten(Tail(chunks))

\* resultChan is closed and drained: the chunks are appended in slice order
ReturnParallelChunkedApply ==
    /\ call.prim = "ParallelChunkedApply" /\ call.pc = "collect"
    /\ call.resultChan = <<>> /\ call.closed
    /\ Returned([name |-> ser.name, data |-> Flatten(call.chunkResults),
                 index |-> ser.index])
    /\ UNCHANGED <<input, df, other, ser>>

NextParallelChunkedApply ==
    \/ StartParallelChunkedApply
    \/ \E w \in BagToSet(other) : ChunkWorker(w)
    \/ CloseResultChan
    \/ CollectChunk
    \/ ReturnParallelChunkedApply

SpecParallelChunkedApply ==
    InitParallelChunkedApply /\ [][NextParallelChunkedApply]_vars

\* C25: in ParallelChunkedApply every chunk number is received from the
\* queue by exactly one worker and its chunk is processed exactly once, and
\* the result is the processed chunks appended in ascending chunk number,
\* which is what ChunkedApply returns for the same function and chunk size,
\* in whatever order the workers finish.
C25_ParallelChunkedApply ==
    (call.prim = "ParallelChunkedApply" /\ call.parallel) =>
        /\ \A c \in 1..call.numChunks :
              call.taken[c] <= 1 /\ call.processed[c] <= call.taken[c]
        /\ call.pc = "returned" =>
              /\ \A c \in 1..call.numChunks :
                    call.taken[c] = 1 /\ call.processed[c] = 1
              /\ AllDone(other)
              /\ ret = ChunkedApply(ser, input.fn, input.chunkSize)

\* two workers, and the result of a chunk reached the caller before that
\* of an earlier chunk
C25_Witness ==
    /\ call.prim = "ParallelChunkedApply" /\ call.parallel /\ call.pc = "returned"
    /\ BagCardinality(other) >= 2
    /\ call.overtaken
    /\ ret.data # ser.data

(***************************************************************************)
(* DataFrame.ParallelTransform and the column aggregates ParallelSum,      *)
(* ParallelMean, ParallelMin, ParallelMax (parallelAggFloat64 and          *)
(* parallelAggInterface): colChan holds the column list and is closed, a   *)
(* worker receives a name, computes fn of the column's vector and stores   *)
(* the value in the shared map between mu.Lock() and mu.Unlock().  The     *)
(* receivers are frames of one row, with column lists that may repeat a    *)
(* name (AddColumn, Select), and what ParallelFilter returns when no row   *)
(* passes: the column list without a vector.                               *)
(***************************************************************************)
FirstAt(cols, c) == CHOOSE i \in 1..Len(cols) : cols[i] = c /\ \A j \in 1..(i - 1) : cols[j] # c

ParFrame(cols) ==
    Frame(cols, [c \in Range(cols) |-> NewSeries(<<IntCell(FirstAt(cols, c))>>, c)],
          NewRangeIndex(1), 1, Len(cols))

ParFrames ==
    {ParFrame(cols) : cols \in SeqsUpTo(FNames, ParLen)}
    \cup {NoRows(ParFrame(cols)) : cols \in SeqsUpTo(FNames, ParLen)}

ColumnCalls ==
    {[prim |-> "ParallelTransform", fn |-> [kind |-> k]] : k \in {"id", "na"}}
    \cup {[prim |-> p, fn |-> [kind |-> p]] :
             p \in {"ParallelSum", "ParallelMean", "ParallelMin", "ParallelMax"}}

\* the aggregates hand the vector to Series.Sum, Mean, Min or Max, which
\* read s.data: a nil vector is a nil pointer dereference
ColumnPanics(fn, s) == fn.kind \notin {"id", "na"} /\ s = Nil

\* fn(s); the functions handed to ParallelTransform return nil for nil
ColumnValue(fn, s) ==
    CASE fn.kind \in {"id", "na"} -> IF s = Nil THEN Nil ELSE SeriesApply(s, fn)
      [] fn.kind = "ParallelSum" -> FloatCell(SumInts(Numbers(s)))
      [] fn.kind = "ParallelMean" -> SeriesMean(s)
      [] fn.kind = "ParallelMin" -> SeriesMin(s)
      [] fn.kind = "ParallelMax" -> SeriesMax(s)

\* df.data[col], nil for a name without a vector
Vector(f, col) == IF col \in DOMAIN f.data THEN f.data[col] ELSE Nil

ParallelColumnsCalls ==
    {CallOf(c.prim, f, Nil, [fn |-> c.fn, opt |-> o.opt, numCPU |-> o.numCPU],
            EmptyBag) :
        c \in ColumnCalls, f \in ParFrames, o \in ParOpts}

InitParallelColumns == \E c \in ParallelColumnsCalls : Calling(c)

StartParallelColumns ==
    /\ call.prim \in {c.prim : c \in ColumnCalls} /\ call.pc = "call"
    /\ LET numCols == Len(df.columns)
           numWorkers == Min(getNumWorkers(input.opt, numCols, input.numCPU), numCols)
       IN IF numCols = 0
          THEN /\ Returned(IF call.prim = "ParallelTransform" THEN Copy(df) ELSE EmptyMap)
               /\ UNCHANGED other
          ELSE /\ call' = [prim |-> call.prim, pc |-> "wait", parallel |-> TRUE,
                           wg |-> numWorkers, colChan |-> df.columns,
                           result |-> EmptyMap, mu |-> FALSE,
                           taken |-> [i \in 1..numCols |-> 0]]
               /\ other' = Started(numWorkers, [pc |-> "take"])
               /\ UNCHANGED ret
    /\ UNCHANGED <<input, df, ser>>

\* mu.Lock() goes through
LockPassesAlways(mu) == TRUE

LockPasses(mu) == ~mu

\* result[col] = val
Store(result, col, val) ==
    [c \in DOMAIN result \cup {col} |-> IF c = col THEN val ELSE result[c]]

\* one step of a worker: the receive from colChan with fn(s) (or wg.Done()
\* when the channel is drained), mu.Lock(), or the store with mu.Unlock()
ColumnWorker(w) ==
    /\ call.prim \in {c.prim : c \in ColumnCalls} /\ call.pc = "wait"
    /\ \/ /\ w.pc = "take" /\ call.colChan # <<>>
          /\ LET col == Head(call.colChan)
                 at == Len(df.columns) - Len(call.colChan) + 1
             IN IF ColumnPanics(input.fn, Vector(df, col))
                THEN /\ call' = [call EXCEPT !.pc = "panic"]
                     /\ UNCHANGED other
                ELSE /\ call' = [call EXCEPT !.colChan = Tail(@), !.taken[at] = @ + 1]
                     /\ other' = Moved(other, w, [pc |-> "lock", col |-> col,
                                 val |-> ColumnValue(input.fn, Vector(df, col))])
       \/ /\ w.pc = "take" /\ call.colChan = <<>>
          /\ call' = [call EXCEPT !.wg = @ - 1]
          /\ other' = Moved(other, w, [pc |-> "done"])
       \/ /\ w.pc = "lock" /\ LockPasses(call.mu)
          /\ call' = [call EXCEPT !.mu = TRUE]
          /\ other' = Moved(other, w, [w EXCEPT !.pc = "store"])
       \/ /\ w.pc = "store"
          /\ call' = [call EXCEPT !.result = Store(@, w.col, w.val), !.mu = FALSE]
          /\ other' = Moved(other, w, [pc |-> "take"])
    /\ UNCHANGED <<input, df, ser, ret>>

ReturnParallelColumns ==
    /\ call.prim \in {c.prim : c \in ColumnCalls} /\ call.pc = "wait"
    /\ WaitPasses(call.wg)
    /\ Returned(IF call.prim = "ParallelTransform"
                THEN [columns |-> df.columns, data |-> call.result,
                      index |-> df.index, shape |-> df.shape]
                ELSE call.result)
    /\ UNCHANGED <<input, df, other, ser>>

NextParallelColumns ==
    \/ StartParallelColumns
    \/ \E w \in BagToSet(other) : ColumnWorker(w)
    \/ ReturnParallelColumns

SpecParallelColumns == InitParallelColumns /\ [][NextParallelColumns]_vars

\* the workers between mu.Lock() and mu.Unlock()
Storing == {w \in BagToSet(other) : w.pc = "store"}

\* C27: in ParallelTransform and the column aggregates every entry of the
\* column list is received from the work queue by exactly one worker, no two
\* workers are storing into the shared result map at the same time, the
\* result holds exactly one entry for every source column, the value of fn
\* for that column, and ParallelTransform lists the columns in the order of
\* the source, in whatever order the workers finish.
C27_ParallelColumns ==
    (call.prim \in {c.prim : c \in ColumnCalls} /\ call.parallel) =>
        /\ \A i \in 1..Len(df.columns) : call.taken[i] <= 1
        /\ Cardinality(Storing) <= 1
        /\ \A w \in Storing : CopiesIn(w, other) = 1 /\ call.mu
        /\ call.pc = "returned" =>
              LET result == IF call.prim = "ParallelTransform" THEN ret.data ELSE ret IN
              /\ \A i \in 1..Len(df.columns) : call.taken[i] = 1
              /\ AllDone(other)
              /\ DOMAIN result = Range(df.columns)
              /\ \A c \in DOMAIN result : result[c] = ColumnValue(input.fn, Vector(df, c))
              /\ call.prim = "ParallelTransform" => ret.columns = df.columns

C27_Witness ==
    /\ call.prim \in {c.prim : c \in ColumnCalls} /\ call.parallel
    /\ call.pc = "returned"
    /\ BagCardinality(other) >= 2
    /\ Len(df.columns) >= 2 /\ df.columns[1] # df.columns[2]
    /\ HasAll(df)

(***************************************************************************)
(* ParallelReadCSV: pathChan holds the positions of the path list and is   *)
(* closed, a worker receives a position i, calls readFunc(paths[i]) and    *)
(* stores the frame in results[i] and the error in errors[i].  input.reads *)
(* is what readFunc returns for each path: a frame or nil, and an error or *)
(* nil (Nil stands for both nils).  The frame read from path i has one row *)
(* whose cell is i, the error of path i is [path |-> i].                   *)
(***************************************************************************)
PathFrame(i) ==
    Frame(<<"a">>, [c \in {"a"} |-> NewSeries(<<IntCell(i)>>, "a")],
          NewRangeIndex(1), 1, 1)

ReadOutcomes(i) ==
    {[df |-> PathFrame(i), err |-> Nil], [df |-> Nil, err |-> Nil],
     [df |-> Nil, err |-> [path |-> i]], [df |-> PathFrame(i), err |-> [path |-> i]]}

ReadsOf(n) == {reads \in [1..n -> UNION {ReadOutcomes(i) : i \in 1..n}] :
                  \A i \in 1..n : reads[i] \in ReadOutcomes(i)}

ParallelReadCSVCalls ==
    {CallOf("ParallelReadCSV", Nil, Nil,
            [reads |-> reads, opt |-> o.opt, numCPU |-> o.numCPU], EmptyBag) :
        reads \in UNION {ReadsOf(n) : n \in 0..ParLen}, o \in ParOpts}

InitParallelReadCSV == \E c \in ParallelReadCSVCalls : Calling(c)

StartParallelReadCSV ==
    /\ call.prim = "ParallelReadCSV" /\ call.pc = "call"
    /\ LET n == Len(input.reads)
           numWorkers == Min(getNumWorkers(input.opt, n, input.numCPU), n)
       IN IF n = 0
          THEN /\ Returned([df |-> New(EmptyMap, <<>>).df, err |-> Nil])
               /\ UNCHANGED other
          ELSE /\ call' = [prim |-> "ParallelReadCSV", pc |-> "wait", parallel |-> TRUE,
                           wg |-> numWorkers, pathChan |-> [i \in 1..n |-> i - 1],
                           results |-> [i \in 1..n |-> Nil],
                           errors |-> [i \in 1..n |-> Nil],
                           stored |-> {}, overtaken |-> FALSE]
               /\ other' = Started(numWorkers, [pc |-> "take"])
               /\ UNCHANGED ret
    /\ UNCHANGED <<input, df, ser>>

\* one step of a worker: the receive from pathChan with the call of readFunc
\* (or wg.Done() when the channel is drained), or the two stores
ReadWorker(w) ==
    /\ call.prim = "ParallelReadCSV" /\ call.pc = "wait"
    /\ \/ /\ w.pc = "take" /\ call.pathChan # <<>>
          /\ call' = [call EXCEPT !.pathChan = Tail(@)]
          /\ other' = Moved(other, w, [pc |-> "store", i |-> Head(call.pathChan),
                                        read |-> input.reads[Head(call.pathChan) + 1]])
       \/ /\ w.pc = "take" /\ call.pathChan = <<>>
          /\ call' = [call EXCEPT !.wg = @ - 1]
          /\ other' = Moved(other, w, [pc |-> "done"])
       \/ /\ w.pc = "store"
          /\ call' = [call EXCEPT !.results[w.i + 1] = w.read.df,
                                  !.errors[w.i + 1] = w.read.err,
                                  !.stored = @ \cup {w.i},
                                  !.overtaken = @ \/ \E j \in call.stored : j > w.i]
          /\ other' = Moved(other, w, [pc |-> "take"])
    /\ UNCHANGED <<input, df, ser, ret>>

\* for i, err := range errors: the position (from 1) of the error returned,
\* 0 when every error is nil
LastError(errors) ==
    IF \A i \in 1..Len(errors) : errors[i] = Nil THEN 0
    ELSE CHOOSE i \in 1..Len(errors) :
             errors[i] # Nil /\ \A j \in (i + 1)..Len(errors) : errors[j] = Nil

FirstError(errors) ==
    IF \A i \in 1..Len(errors) : errors[i] = Nil THEN 0
    ELSE CHOOSE i \in 1..Len(errors) :
             errors[i] # Nil /\ \A j \in 1..(i - 1) : errors[j] = Nil

ReturnParallelReadCSV ==
    /\ call.prim = "ParallelReadCSV" /\ call.pc = "wait"
    /\ WaitPasses(call.wg)
    /\ LET failed == FirstError(call.errors)
           validResults == SelectSeq(call.results, LAMBDA f : f # Nil)
       IN Returned(IF failed # 0 THEN [df |-> Nil, err |-> call.errors[failed]]
                   ELSE IF Len(validResults) = 0
                   THEN [df |-> New(EmptyMap, <<>>).df, err |-> Nil]
                   ELSE [df |-> Concat(validResults), err |-> Nil])
    /\ UNCHANGED <<input, df, other, ser>>

NextParallelReadCSV ==
    \/ StartParallelReadCSV
    \/ \E w \in BagToSet(other) : ReadWorker(w)
    \/ ReturnParallelReadCSV

SpecParallelReadCSV == InitParallelReadCSV /\ [][NextParallelReadCSV]_vars

\* the positions (from 1) of the paths whose read fails
Failing == {i \in 1..Len(input.reads) : input.reads[i].err # Nil}

\* the frames read, in the order of the path list
FramesRead ==
    LET got == SelectSeq(input.reads, LAMBDA r : r.df # Nil)
    IN [i \in 1..Len(got) |-> got[i].df]

\* C28: when a read fails ParallelReadCSV returns no frame and the error of
\* the failing path that stands first in the path list, in whatever order
\* the reads finish; when none fails it returns the frames read
\* concatenated in the order of the path list.
C28_ParallelReadCSV ==
    (call.prim = "ParallelReadCSV" /\ call.pc = "returned") =>
        IF Failing # {}
        THEN /\ ret.df = Nil
             /\ ret.err = [path |-> CHOOSE i \in Failing : \A j \in Failing : i <= j]
        ELSE /\ ret.err = Nil
             /\ ret.df = Concat(FramesRead)

\* two reads fail and the later one finished first
C28_Witness ==
    /\ call.prim = "ParallelReadCSV" /\ call.pc = "returned" /\ call.parallel
    /\ Cardinality(Failing) >= 2
    /\ call.overtaken
    /\ ret.df = Nil

(***************************************************************************)
(* DataFrame.ParallelFilter as goroutines.  The receivers are the frames   *)
(* with the column a = 1, .., n, and what Loc(nil, {"a", "b"}) returns for *)
(* them: the column list a, b with no vector for b.  Row reads              *)
(* df.data[col].Get(pos) for every listed column, a nil pointer            *)
(* dereference for a column without a vector; a panic in any goroutine     *)
(* ends the program (call.pc = "panic").                                   *)
(***************************************************************************)
CountingFrame(n) ==
    Frame(<<"a">>, [c \in {"a"} |-> NewSeries(Counting(n), "a")], NewRangeIndex(n), n, 1)

FilterFrames ==
    {CountingFrame(n) : n \in 0..ParLen}
    \cup {Loc(CountingFrame(n), [kind |-> "nil"], [kind |-> "list", v |-> <<"a", "b">>]) :
             n \in 0..ParLen}

ParallelFilterCalls ==
    {CallOf("ParallelFilter", f, Nil,
            [fn |-> Pred("a", IntCell(v)), opt |-> o.opt, numCPU |-> o.numCPU], <<>>) :
        f \in FilterFrames, v \in 1..2, o \in ParOpts}

InitParallelFilter == \E c \in ParallelFilterCalls : Calling(c)

Panics ==
    /\ call' = [call EXCEPT !.pc = "panic"]
    /\ UNCHANGED <<other, ret>>

StartParallelFilter ==
    /\ call.prim = "ParallelFilter" /\ call.pc = "call"
    /\ LET n == df.shape[1]
           numWorkers == getNumWorkers(input.opt, n, input.numCPU)
           chunkSize == RangeChunkSize(n, numWorkers)
           ranges == WorkerRanges(n, numWorkers, chunkSize)
       IN IF n = 0
          THEN IF ~HasAll(df) THEN Panics
               ELSE Returned(Copy(df)) /\ UNCHANGED other
          ELSE IF numWorkers <= 1
          THEN IF FilterPanics(df, input.fn) THEN Panics
               ELSE Returned(Filter(df, input.fn)) /\ UNCHANGED other
          ELSE /\ call' = [prim |-> "ParallelFilter", pc |-> "wait", parallel |-> TRUE,
                           numWorkers |-> numWorkers,
                           wg |-> numWorkers - (numWorkers - Len(ranges)),
                           results |-> [w \in 1..numWorkers |-> <<>>]]
               /\ other' = RangeWorkers(ranges)
               /\ UNCHANGED ret
    /\ UNCHANGED <<input, df, ser>>

\* one pass of the worker's loop (df.Row(i), fn(row)), or the store of its
\* indices with the deferred wg.Done() after the last
FilterWorker(k) ==
    /\ call.prim = "ParallelFilter" /\ call.pc = "wait" /\ other[k].pc = "run"
    /\ IF other[k].i < other[k].end
       THEN IF ~HasAll(df) THEN Panics
            ELSE /\ other' = [other EXCEPT
                                ![k].i = @ + 1,
                                ![k].indices =
                                    IF Holds(input.fn, Row(df, other[k].i))
                                    THEN Append(@, other[k].i) ELSE @]
                 /\ UNCHANGED <<call, ret>>
       ELSE /\ call' = [call EXCEPT !.wg = @ - 1,
                                    !.results[other[k].w + 1] = other[k].indices]
            /\ other' = [other EXCEPT ![k].pc = "done"]
            /\ UNCHANGED ret
    /\ UNCHANGED <<input, df, ser>>

ReturnParallelFilter ==
    /\ call.prim = "ParallelFilter" /\ call.pc = "wait"
    /\ WaitPasses(call.wg)
    /\ LET allIndices == Flatten(call.results)
       IN Returned(IF Len(allIndices) = 0 THEN NoRows(df) ELSE TakeRows(df, allIndices))
    /\ UNCHANGED <<input, df, other, ser>>

(***************************************************************************)
(* GroupBy.ParallelAgg as goroutines: worker k aggregates the groups of    *)
(* its range one by one into results[i] (call.results[i] tells that slot i *)
(* is written); the caller builds the frame from results after wg.Wait().  *)
(***************************************************************************)
ParallelAggCalls ==
    {CallOf("ParallelAgg", f, Nil,
            [by |-> <<"k">>, aggFuncs |-> [c \in {col} |-> <<"AggFirst">>],
             opt |-> o.opt, numCPU |-> o.numCPU], <<>>) :
        f \in UNION {PAFramesOf(n) : n \in 0..ParLen}, col \in {"v", "z"},
        o \in ParOpts}

InitParallelAgg == \E c \in ParallelAggCalls : Calling(c)

StartParallelAgg ==
    /\ call.prim = "ParallelAgg" /\ call.pc = "call"
    /\ \E gb \in {GroupBy(df, input.by)} :
       \E numGroups \in {Len(gb.keyOrder)} :
       \E numWorkers \in {Min(getNumWorkers(input.opt, numGroups, input.numCPU), numGroups)} :
       \E ranges \in {WorkerRanges(numGroups, numWorkers,
                                   RangeChunkSize(numGroups, numWorkers))} :
          IF \/ \E col \in DOMAIN input.aggFuncs : col \notin DOMAIN df.data
             \/ numGroups = 0
          THEN /\ Returned(ParallelAgg(gb, input.aggFuncs, input.opt, input.numCPU, <<>>))
               /\ UNCHANGED other
          ELSE /\ call' = [prim |-> "ParallelAgg", pc |-> "wait", parallel |-> TRUE,
                           numWorkers |-> numWorkers,
                           wg |-> numWorkers - (numWorkers - Len(ranges)),
                           results |-> [i \in 1..numGroups |-> FALSE]]
               /\ other' = RangeWorkers(ranges)
               /\ UNCHANGED ret
    /\ UNCHANGED <<input, df, ser>>

GroupAggWorker(k) ==
    /\ call.prim = "ParallelAgg" /\ call.pc = "wait" /\ other[k].pc = "run"
    /\ IF other[k].i < other[k].end
       THEN /\ call' = [call EXCEPT !.results[other[k].i + 1] = TRUE]
            /\ other' = [other EXCEPT ![k].i = @ + 1]
       ELSE /\ call' = [call EXCEPT !.wg = @ - 1]
            /\ other' = [other EXCEPT ![k].pc = "done"]
    /\ UNCHANGED <<input, df, ser, ret>>

ReturnParallelAgg ==
    /\ call.prim = "ParallelAgg" /\ call.pc = "wait"
    /\ WaitPasses(call.wg)
    /\ \E gb \in {GroupBy(df, input.by)} :
       \E data \in {ParallelAggMap(gb, input.aggFuncs, input.opt, input.numCPU)} :
       \E order \in MapOrders(DOMAIN data) :
          Returned(ParallelAgg(gb, input.aggFuncs, input.opt, input.numCPU, order))
    /\ UNCHANGED <<input, df, other, ser>>

(***************************************************************************)
(* Specification FairParallel: the program calls one of the parallel       *)
(* primitives, and the goroutines are scheduled fairly: a step that stays  *)
(* possible is taken.                                                      *)
(***************************************************************************)
InitIdle ==
    /\ call = [prim |-> "none", pc |-> "idle", parallel |-> FALSE]
    /\ input = Nil /\ df = Nil /\ ser = Nil /\ ret = None
    /\ other = <<>>

\* the program makes one of these calls
Makes(c) ==
    /\ call' = c.call /\ df' = c.df /\ ser' = c.ser /\ input' = c.input
    /\ other' = c.other
    /\ UNCHANGED ret

Invoke ==
    /\ call.pc = "idle"
    /\ \/ \E c \in ParallelApplyCalls : Makes(c)
       \/ \E c \in ParallelFilterCalls : Makes(c)
       \/ \E c \in ParallelColumnsCalls : Makes(c)
       \/ \E c \in ParallelAggCalls : Makes(c)
       \/ \E c \in ParallelChunkedApplyCalls : Makes(c)
       \/ \E c \in ParallelReadCSVCalls : Makes(c)

NextParallel ==
    \/ Invoke
    \/ StartParallelApply
    \/ \E k \in DOMAIN other : ApplyWorker(k)
    \/ ReturnParallelApply
    \/ StartParallelFilter
    \/ \E k \in DOMAIN other : FilterWorker(k)
    \/ ReturnParallelFilter
    \/ StartParallelColumns
    \/ \E w \in BagToSet(other) : ColumnWorker(w)
    \/ ReturnParallelColumns
    \/ StartParallelAgg
    \/ \E k \in DOMAIN other : GroupAggWorker(k)
    \/ ReturnParallelAgg
    \/ StartParallelChunkedApply
    \/ \E w \in BagToSet(other) : ChunkWorker(w)
    \/ CloseResultChan
    \/ CollectChunk
    \/ ReturnParallelChunkedApply
    \/ StartParallelReadCSV
    \/ \E w \in BagToSet(other) : ReadWorker(w)
    \/ ReturnParallelReadCSV

FairParallel == InitIdle /\ [][NextParallel]_vars /\ WF_vars(NextParallel)

\* the workers in the order of their go statements, or the bag of them
RangePrims == {"ParallelApply", "ParallelFilter", "ParallelAgg"}

ParallelPrimitives ==
    {"ParallelApply", "ParallelFilter", "ParallelTransform", "ParallelAgg",
     "ParallelChunkedApply", "ParallelReadCSV"}

WorkersDone ==
    IF call.prim \in RangePrims THEN \A k \in DOMAIN other : other[k].pc = "done"
    ELSE AllDone(other)

\* C26: every call of a parallel primitive (ParallelApply, ParallelFilter,
\* ParallelTransform, ParallelAgg, ParallelChunkedApply, ParallelReadCSV)
\* eventually returns when the user function returns and the scheduler is
\* fair: no worker waits forever on a queue or result channel, the wait
\* group's count reaches zero, and no worker is running when the caller
\* goes on.
C26_EventuallyReturns ==
    (call.pc = "call" /\ call.prim \in ParallelPrimitives)
        ~> (/\ call.pc = "returned"
            /\ WorkersDone
            /\ call.parallel => call.wg = 0)

(***************************************************************************)
(* Index.Union, Index.Intersection, Index.Difference.  Specification       *)
(* SpecIndexSets: two label indexes A and B, duplicates included, and one  *)
(* of the three operations invoked on A.                                   *)
(***************************************************************************)
IdxLen == 3

IdxLabels == {IntCell(1), IntCell(2), StrCell("a")}

\* one loop "for _, label := range from": a label is appended when keep
\* admits it; seen holds exactly the labels appended so far when dedup is
\* set, and nothing is looked up in it otherwise
RECURSIVE AppendLabels(_, _, _, _, _)
AppendLabels(labels, from, i, keep, dedup) ==
    IF i > Len(from) THEN labels
    ELSE IF from[i] \in keep /\ (dedup => from[i] \notin Range(labels))
    THEN AppendLabels(Append(labels, from[i]), from, i + 1, keep, dedup)
    ELSE AppendLabels(labels, from, i + 1, keep, dedup)

\* Index.Union(other)
Union(idx, oth) ==
    NewIndex(AppendLabels(AppendLabels(<<>>, idx.labels, 1, IdxLabels, TRUE),
                          oth.labels, 1, IdxLabels, TRUE),
             idx.name)

\* Index.Intersection(other): otherSet is the set of other's labels
Intersection(idx, oth) ==
    NewIndex(AppendLabels(<<>>, idx.labels, 1, Range(oth.labels), TRUE), idx.name)

\* Index.Difference(other): no seen map in this one
Difference(idx, oth) ==
    NewIndex(AppendLabels(<<>>, idx.labels, 1, IdxLabels \ Range(oth.labels), FALSE),
             idx.name)

InitIndexSets ==
    /\ input \in [A : {NewIndex(l, "x") : l \in SeqsUpTo(IdxLabels, IdxLen)},
                  B : {NewIndex(l, "y") : l \in SeqsUpTo(IdxLabels, IdxLen)}]
    /\ call = [op |-> "none"]
    /\ df = Nil /\ other = Nil /\ ser = Nil /\ ret = Nil

CallUnion ==
    /\ call.op = "none"
    /\ call' = [op |-> "Union"]
    /\ ret' = Union(input.A, input.B)
    /\ UNCHANGED <<input, df, other, ser>>

CallIntersection ==
    /\ call.op = "none"
    /\ call' = [op |-> "Intersection"]
    /\ ret' = Intersection(input.A, input.B)
    /\ UNCHANGED <<input, df, other, ser>>

CallDifference ==
    /\ call.op = "none"
    /\ call' = [op |-> "Difference"]
    /\ ret' = Difference(input.A, input.B)
    /\ UNCHANGED <<input, df, other, ser>>

NextIndexSets == CallUnion \/ CallIntersection \/ CallDifference

SpecIndexSets == InitIndexSets /\ [][NextIndexSets]_vars

\* the labels of xs in the order of their first appearance, each once
RECURSIVE FirstLabels(_, _)
FirstLabels(xs, n) ==
    IF n = 0 THEN <<>>
    ELSE IF \E j \in 1..(n - 1) : xs[j] = xs[n] THEN FirstLabels(xs, n - 1)
    ELSE Append(FirstLabels(xs, n - 1), xs[n])

NoRepeats(xs) == \A i, j \in 1..Len(xs) : xs[i] = xs[j] => i = j

\* what the set operation op on A and B is to give: the label set and the
\* labels in order
SetOf(op, A, B) ==
    CASE op = "Union" -> Range(A) \cup Range(B)
      [] op = "Intersection" -> Range(A) \cap Range(B)
      [] op = "Difference" -> Range(A) \ Range(B)

OrderOf(op, A, B) ==
    LET In(x) == x \in SetOf(op, A, B)
    IN SelectSeq(FirstLabels(A \o B, Len(A) + Len(B)), In)

\* C29: Union, Intersection and Difference invoked on A each return an index
\* without repeated labels, also when A holds repeated labels; the labels
\* that stay are in the order of their first appearance in A (for Union
\* followed by the labels only in B in their order in B), and the label sets
\* are A union B, A intersect B and A minus B.
C29_IndexSets ==
    call.op # "none" =>
        /\ NoRepeats(ret.labels)
        /\ Range(ret.labels) = SetOf(call.op, input.A.labels, input.B.labels)
        /\ ret.labels = OrderOf(call.op, input.A.labels, input.B.labels)

(***************************************************************************)
(* Specification SpecWorkers: getNumWorkers on options of every sign, a    *)
(* data size from 0 and a count of CPUs.                                   *)
(***************************************************************************)
WorkData == 4      \* largest data size

DefaultChunkSize == 1000

InitWorkers ==
    /\ input \in [opt : [NumWorkers : (-1)..ParWorkers,
                         ChunkSize : ((-1)..WorkData) \cup {DefaultChunkSize}],
                  dataSize : 0..WorkData,
                  numCPU : 1..MaxCPU]
    /\ call = [op |-> "none"]
    /\ df = Nil /\ other = Nil /\ ser = Nil /\ ret = 0

CallGetNumWorkers ==
    /\ call.op = "none"
    /\ call' = [op |-> "getNumWorkers"]
    /\ ret' = getNumWorkers(input.opt, input.dataSize, input.numCPU)
    /\ UNCHANGED <<input, df, other, ser>>

NextWorkers == CallGetNumWorkers

SpecWorkers == InitWorkers /\ [][NextWorkers]_vars

\* ceil(a / b) for a >= 0 and b > 0
Ceil(a, b) == IF a % b = 0 THEN a \div b ELSE (a \div b) + 1

\* C30: the number of workers is num_workers when num_workers > 0, and
\* otherwise max(1, min(cpu_count, ceil(data_size / max(chunk_size, 1)))),
\* for every data_size >= 0 and every integer chunk_size, zero and negative
\* values included.
C30_Workers ==
    call.op = "getNumWorkers" =>
        ret = IF input.opt.NumWorkers > 0 THEN input.opt.NumWorkers
              ELSE Max(1, Min(input.numCPU,
                              Ceil(input.dataSize, Max(input.opt.ChunkSize, 1))))

=============================================================================
